---- MODULE Spec2Model ----
(***************************************************************************)
(* The Morpho monitors: VaultMonitor (vault APY monitor with Telegram),    *)
(* MorphoMonitor with Telegram (position monitor) and the console-only     *)
(* MorphoMonitor.  One monitor runs per process; the variable `kind` says  *)
(* which one.                                                              *)
(*                                                                         *)
(* Units.  Time is counted in units of 200 s (200000 ms): an               *)
(* ALERT_COOLDOWN of 600 s is 3.  APYs are fixed-point numbers in units of *)
(* 0.00001 (0.0001 is 10, 0.05 is 5000).  LTVs and LLTVs are fixed-point   *)
(* numbers in units of 0.0001.                                             *)
(***************************************************************************)
EXTENDS Integers, Sequences, FiniteSets, TLC

VARIABLES
    kind,               \* which monitor this process runs
    checkInterval,      \* CHECK_INTERVAL (environment), in time units
    apyDiffThreshold,   \* APY_DIFF_THRESHOLD (environment), in APY units
    now,                \* Date.now()
    mainPc,             \* position of monitorVaults / monitorPosition
    nextFire,           \* due time of the setInterval timer once armed
    fetching,           \* number of cycles waiting for their fetch
    sending,            \* the alert sends in flight: the currentTime of each logAlert
    started,            \* number of cycles started so far
    lastAlertTime,      \* this.lastAlertTime
    lastVault1NetApy,   \* this.lastVault1NetApy
    lastVault2NetApy,   \* this.lastVault2NetApy
    cache,              \* what getPositionData has cached so far
    crashed,            \* an exception left a cycle (unhandled rejection)
    alertLog,           \* history: the calls of logAlert, [time, sent, cause]
    sendFailed,         \* history: the alert send that returned last had failed
    overlapped,         \* history: some cycle started while earlier work was pending
    lastCycle,          \* history: what the most recently evaluated cycle did
    calc                \* a calculation on its own: [fn, done, arg, res]

vars == <<kind, checkInterval, apyDiffThreshold, now, mainPc, nextFire,
          fetching, sending, started, lastAlertTime, lastVault1NetApy,
          lastVault2NetApy, cache, crashed, alertLog, sendFailed, overlapped,
          lastCycle, calc>>

(***************************************************************************)
(* Bounds of the model.                                                    *)
(***************************************************************************)
Horizon == 3        \* time units the clock runs after process start
MaxCycles == 3      \* cycles started in one run

(***************************************************************************)
(* Program constants.                                                      *)
(***************************************************************************)
NULL == -1                  \* JavaScript null (no APY or time is negative)
ALERT_COOLDOWN == 3         \* 600 s (environment; the vault monitor's default)
CONSOLE_ALERT_COOLDOWN == 18    \* 3600 s, fixed in the console monitor
APY_CHANGE_EPSILON == 10    \* 0.0001
LTV_ALERT_THRESHOLD == 8000 \* 0.8
LTV_ONE == 10000            \* 1.0 in LTV units
VIRTUAL_SHARES == 1000000
VIRTUAL_ASSETS == 1
EQUAL_TOLERANCE == 5        \* 0.00005
NON_NUMERIC == -2           \* a string that is no number, such as 'N/A'
NOT_A_NUMBER == -3          \* NaN as the value of an APR
StartTime == CONSOLE_ALERT_COOLDOWN + 1  \* Date.now() at process start: far above 0
MaxTime == StartTime + Horizon
Kinds == {"vault", "telegram", "console"}
CheckIntervals == {1, 3}            \* 200 s and 600 s
ApyDiffThresholds == {0, 100}       \* the default '0.00' and 0.1%
VAULT_1 == "0xA1"
VAULT_2 == "0xb2"

Abs(x) == IF x < 0 THEN -x ELSE x

RECURSIVE SumSeq(_)
SumSeq(s) == IF s = <<>> THEN 0 ELSE Head(s) + SumSeq(Tail(s))

\* String.prototype.toLowerCase on the addresses of the model.
toLowerCase(a) ==
    CASE a = "0xA1" -> "0xa1"
      [] a = "0xB2" -> "0xb2"
      [] OTHER -> a

(***************************************************************************)
(* safeGet.  A JavaScript value is undefined, null, a primitive (v is its  *)
(* source text) or an object; an object's own properties are own[key],     *)
(* Absent for a key it does not have, and every value that is not null or  *)
(* undefined inherits toString.                                            *)
(***************************************************************************)
Keys == {"a", "b", "length", "toString"}
Undefined == [t |-> "undefined"]
Null == [t |-> "null"]
Absent == [t |-> "absent"]
Thrown == [t |-> "thrown"]
Prim(text) == [t |-> "prim", v |-> text]
Obj(properties) == [t |-> "obj", own |-> properties]
NoProperties == [k \in Keys |-> Absent]
InheritedFunction == Prim("function")
NotAString == "undefined"

\* path.split('.'): the keys, or a TypeError for a path that is no string.
split(path) ==
    CASE path = NotAString -> [threw |-> TRUE, keys |-> <<>>]
      [] path = "" -> [threw |-> FALSE, keys |-> <<"">>]
      [] path = "a" -> [threw |-> FALSE, keys |-> <<"a">>]
      [] path = "b" -> [threw |-> FALSE, keys |-> <<"b">>]
      [] path = "a.b" -> [threw |-> FALSE, keys |-> <<"a", "b">>]
      [] path = "a.b.b" -> [threw |-> FALSE, keys |-> <<"a", "b", "b">>]
      [] path = "a.length" -> [threw |-> FALSE, keys |-> <<"a", "length">>]
      [] path = "toString" -> [threw |-> FALSE, keys |-> <<"toString">>]
      [] path = "a.toString" -> [threw |-> FALSE, keys |-> <<"a", "toString">>]

IsNullish(current) == current = Null \/ current = Undefined

\* Object.prototype.hasOwnProperty.call(current, key) for a current that is
\* not null or undefined: a string has the own property length.
hasOwnProperty(current, key) ==
    \/ current.t = "obj" /\ key \in Keys /\ current.own[key] # Absent
    \/ current = Prim("'x'") /\ key = "length"

\* current[key]; a TypeError for null and undefined.
GetProperty(current, key) ==
    IF IsNullish(current) THEN Thrown
    ELSE IF current.t = "obj" /\ key \in Keys /\ current.own[key] # Absent
         THEN current.own[key]
    ELSE IF current = Prim("'x'") /\ key = "length" THEN Prim("1")
    ELSE IF key = "toString" THEN InheritedFunction
    ELSE Undefined

\* Faulty variant of safeGetLoop: a falsy value is replaced by the default.
RECURSIVE safeGetLoop_Truthy(_, _, _)
safeGetLoop_Truthy(current, keys, defaultValue) ==
    IF keys = <<>>
    THEN IF IsNullish(current) \/ current \in {Prim("0"), Prim("''"), Prim("false")}
         THEN defaultValue ELSE current
    ELSE IF IsNullish(current) \/ ~hasOwnProperty(current, Head(keys))
         THEN defaultValue
    ELSE safeGetLoop_Truthy(GetProperty(current, Head(keys)), Tail(keys), defaultValue)

\* The loop over the keys and the final return of safeGet.
RECURSIVE safeGetLoop(_, _, _)
safeGetLoop(current, keys, defaultValue) ==
    IF keys = <<>>
    THEN IF IsNullish(current) THEN defaultValue ELSE current
    ELSE IF IsNullish(current) \/ ~hasOwnProperty(current, Head(keys))
         THEN defaultValue
    ELSE safeGetLoop(GetProperty(current, Head(keys)), Tail(keys), defaultValue)

\* safeGet: whatever is thrown inside is caught and gives the default.
safeGet(obj, path, defaultValue) ==
    LET parts == split(path)
        result == IF parts.threw THEN Thrown
                  ELSE safeGetLoop(obj, parts.keys, defaultValue)
    IN  IF result = Thrown THEN defaultValue ELSE result

(***************************************************************************)
(* calculateTotalRewardsApr.  A reward is its supplyApr (NULL when the     *)
(* field is missing); an allocation is [supplyAssetsUsd, rewards], the     *)
(* rewards being those of allocation.market.state.  `if (x)` is false for  *)
(* a missing value and for 0.                                              *)
(***************************************************************************)
Truthy(x) == x # NULL /\ x # 0

\* parseFloat of a field: NaN for a string that is no number.
parseFloat(x) == IF x = NON_NUMERIC THEN NOT_A_NUMBER ELSE x

\* a + b and the sum of a sequence of APRs; NaN absorbs.
AprAdd(a, b) ==
    IF a = NOT_A_NUMBER \/ b = NOT_A_NUMBER THEN NOT_A_NUMBER ELSE a + b

AprSum(s) ==
    IF \E i \in DOMAIN s : s[i] = NOT_A_NUMBER THEN NOT_A_NUMBER ELSE SumSeq(s)

DirectRewardsApr(rewards) ==
    AprSum([i \in 1..Len(rewards) |->
                IF Truthy(rewards[i]) THEN parseFloat(rewards[i]) ELSE 0])

\* Faulty variant of TotalAllocatedAssets: only the first allocation counts.
TotalAllocatedAssets_FirstOnly(allocation) ==
    IF allocation # <<>> /\ Truthy(allocation[1].supplyAssetsUsd)
    THEN allocation[1].supplyAssetsUsd
    ELSE 0

TotalAllocatedAssets(allocation) ==
    SumSeq([i \in 1..Len(allocation) |->
                IF Truthy(allocation[i].supplyAssetsUsd)
                THEN allocation[i].supplyAssetsUsd ELSE 0])

\* Faulty variant of MarketRewardsApr: the market rewards are added without
\* their weight.
MarketRewardsApr_Unweighted(allocation) ==
    LET total == TotalAllocatedAssets(allocation)
    IN  IF total > 0
        THEN SumSeq([i \in 1..Len(allocation) |->
                 IF Truthy(allocation[i].supplyAssetsUsd)
                 THEN SumSeq([j \in 1..Len(allocation[i].rewards) |->
                          IF Truthy(allocation[i].rewards[j])
                          THEN allocation[i].rewards[j]
                          ELSE 0])
                 ELSE 0])
        ELSE 0

\* weight = supplyAssetsUsd / totalAllocatedAssets of allocation i, as the
\* fraction n / d.
AllocationWeight(allocation, i) ==
    [n |-> allocation[i].supplyAssetsUsd, d |-> TotalAllocatedAssets(allocation)]

\* supplyApr * weight.
AprTimesWeight(apr, weight) ==
    IF apr = NOT_A_NUMBER THEN NOT_A_NUMBER ELSE (apr * weight.n) \div weight.d

\* Sum over allocations and their market rewards of supplyApr * weight, with
\* weight = supplyAssetsUsd / totalAllocatedAssets.
MarketRewardsApr(allocation) ==
    LET total == TotalAllocatedAssets(allocation)
    IN  IF total > 0
        THEN AprSum([i \in 1..Len(allocation) |->
                 IF Truthy(allocation[i].supplyAssetsUsd)
                 THEN LET weight == AllocationWeight(allocation, i)
                      IN  AprSum([j \in 1..Len(allocation[i].rewards) |->
                              IF Truthy(allocation[i].rewards[j])
                              THEN AprTimesWeight(
                                       parseFloat(allocation[i].rewards[j]), weight)
                              ELSE 0])
                 ELSE 0])
        ELSE 0

calculateTotalRewardsApr(vault) ==
    AprAdd(DirectRewardsApr(vault.state.rewards),
           MarketRewardsApr(vault.state.allocation))

(***************************************************************************)
(* The vault snapshots the data source may return.                         *)
(***************************************************************************)
VaultStates ==
    { [apy |-> 5200, netApy |-> 5000, rewards |-> <<NULL>>, allocation |-> <<>>],
      [apy |-> 5200, netApy |-> 5000, rewards |-> <<10>>, allocation |-> <<>>],
      [apy |-> 5200, netApy |-> 5000, rewards |-> <<>>,
       allocation |-> << [supplyAssetsUsd |-> 2, rewards |-> <<100>>] >>] }

\* The addresses as the data source spells them: the two configured vaults
\* (in another case than the configuration's) and a third vault.
Vault1Items == [address : {"0xa1"}, state : VaultStates]
Vault2Items ==
    [address : {"0xB2"}, state : {s \in VaultStates : s.rewards = <<>> \/ s.rewards = <<NULL>>}]
OtherItem ==
    [address |-> "0xc3",
     state |-> [netApy |-> 5000, rewards |-> <<>>, allocation |-> <<>>]]

\* What axios.post yields: an error (a rejected request, a malformed body), or
\* the items of the vaults query: both vaults in either order, or a result
\* that misses a vault or repeats one.
VaultResponses ==
    {[error |-> TRUE, items |-> <<>>]}
    \cup {[error |-> FALSE, items |-> s] :
            s \in {<<>>, <<OtherItem>>}
                  \cup {<<a, b>> : a \in Vault1Items, b \in Vault2Items}
                  \cup {<<b, a>> : a \in Vault1Items, b \in Vault2Items}
                  \cup {<<a, OtherItem>> : a \in Vault1Items}
                  \cup {<<a, a>> : a \in Vault1Items}}

IsTarget(v) ==
    toLowerCase(v.address) \in {toLowerCase(VAULT_1), toLowerCase(VAULT_2)}

\* safeGet(vault, 'state.netApy', 0): the default for a missing or null field.
NetApyOf(vault) == IF vault.state.netApy = NULL THEN 0 ELSE vault.state.netApy

\* safeGet(vault, 'state.apy', 0).
BaseApyOf(vault) == IF vault.state.apy = NULL THEN 0 ELSE vault.state.apy

\* Faulty variant of WithTotals: the rewards are left out of the totals.
WithTotals_NoRewards(vault) ==
    [address |-> vault.address,
     calculatedRewardsApr |-> calculateTotalRewardsApr(vault),
     totalApy |-> parseFloat(BaseApyOf(vault)),
     totalNetApy |-> parseFloat(NetApyOf(vault))]

WithTotals(vault) ==
    LET rewardsApr == calculateTotalRewardsApr(vault)
        baseApy == parseFloat(BaseApyOf(vault))
        netApy == parseFloat(NetApyOf(vault))
    IN  [address |-> vault.address,
         calculatedRewardsApr |-> rewardsApr,
         totalApy |-> AprAdd(baseApy, rewardsApr),
         totalNetApy |-> AprAdd(netApy, rewardsApr)]

\* fetchVaultData: the vaults with their totals, or <<>> for null.
fetchVaultData(response) ==
    IF response.error
    THEN <<>>
    ELSE LET targetVaults == SelectSeq(response.items, IsTarget)
         IN  IF Len(targetVaults) # 2
             THEN <<>>
             ELSE [i \in 1..2 |-> WithTotals(targetVaults[i])]

\* Faulty variant of FindVault: vault1 and vault2 are taken by position.
FindVault_ByPosition(vaultsData, address) ==
    LET position == IF address = VAULT_1 THEN 1 ELSE 2
    IN  IF position <= Len(vaultsData) THEN position ELSE 0

\* Array.prototype.find by configured address: the index found, 0 for undefined.
FindVault(vaultsData, address) ==
    LET hits == {i \in 1..Len(vaultsData) :
                    toLowerCase(vaultsData[i].address) = toLowerCase(address)}
    IN  IF hits = {} THEN 0 ELSE CHOOSE i \in hits : \A j \in hits : i <= j

\* The cycle has both vaults (the two early returns of monitor are not taken).
HasBothVaults(vaultsData) ==
    /\ Len(vaultsData) = 2
    /\ FindVault(vaultsData, VAULT_1) # 0
    /\ FindVault(vaultsData, VAULT_2) # 0

(***************************************************************************)
(* The evaluation of a vault cycle (the body of monitor in monitorVaults). *)
(***************************************************************************)
\* Faulty variant of ApyChanged: the null checks dropped, so that the first
\* cycle compares against the null baseline.
ApyChanged_NoNullCheck(v1, v2, last1, last2) ==
    Abs(v1 - last1) > APY_CHANGE_EPSILON \/ Abs(v2 - last2) > APY_CHANGE_EPSILON

\* apyChanged: a baseline exists and either vault moved by more than 0.0001.
ApyChanged(v1, v2, last1, last2) ==
    /\ last1 # NULL
    /\ last2 # NULL
    /\ (Abs(v1 - last1) > APY_CHANGE_EPSILON \/ Abs(v2 - last2) > APY_CHANGE_EPSILON)

\* Faulty variant of ShouldAlert: the static difference does not alert.
ShouldAlert_ChangeOnly(absDiff, threshold, apyChanged) == apyChanged

\* if (absDiff >= APY_DIFF_THRESHOLD || apyChanged)
ShouldAlert(absDiff, threshold, apyChanged) ==
    absDiff >= threshold \/ apyChanged

\* Faulty variant of NextBaseline: the baseline follows alerting cycles only.
NextBaseline_OnAlertOnly(value, last, alerting) ==
    IF alerting THEN value ELSE last

\* this.lastVault1NetApy = vault1NetApy (and the same for vault 2).
NextBaseline(value, last, alerting) == value

\* Faulty variant of SkippedCycle: a cycle without snapshot forgets the baseline.
SkippedCycle_ForgetsBaseline(last1, last2) ==
    [ok |-> FALSE, v1 |-> NULL, v2 |-> NULL, apyChanged |-> FALSE,
     trigger |-> FALSE, cause |-> "none", last1 |-> NULL, last2 |-> NULL]

\* Faulty variant of SkippedCycle: a cycle without snapshot alerts.
SkippedCycle_Alerts(last1, last2) ==
    [ok |-> FALSE, v1 |-> NULL, v2 |-> NULL, apyChanged |-> FALSE,
     trigger |-> TRUE, cause |-> "none", last1 |-> last1, last2 |-> last2]

\* The early returns of monitor: nothing is evaluated and nothing is written.
SkippedCycle(last1, last2) ==
    [ok |-> FALSE, v1 |-> NULL, v2 |-> NULL, apyChanged |-> FALSE,
     trigger |-> FALSE, cause |-> "none", last1 |-> last1, last2 |-> last2]

\* Which of the two conditions of the alert test holds: the difference
\* threshold ("diff"), the APY change ("change"), both, or none.
AlertCause(diffHit, changed) ==
    IF diffHit /\ changed THEN "both"
    ELSE IF diffHit THEN "diff"
    ELSE IF changed THEN "change"
    ELSE "none"

VaultEval(response, last1, last2, threshold) ==
    LET vaultsData == fetchVaultData(response)
    IN  IF ~HasBothVaults(vaultsData)
        THEN SkippedCycle(last1, last2)
        ELSE LET v1 == vaultsData[FindVault(vaultsData, VAULT_1)].totalNetApy
                 v2 == vaultsData[FindVault(vaultsData, VAULT_2)].totalNetApy
                 changed == ApyChanged(v1, v2, last1, last2)
                 alerting == ShouldAlert(Abs(v1 - v2), threshold, changed)
             IN  [ok |-> TRUE, v1 |-> v1, v2 |-> v2, apyChanged |-> changed,
                  trigger |-> alerting,
                  cause |-> AlertCause(Abs(v1 - v2) >= threshold, changed),
                  last1 |-> NextBaseline(v1, last1, alerting),
                  last2 |-> NextBaseline(v2, last2, alerting)]

\* betterVault = apyDiff > 0 ? vault1 : vault2, for a cycle with both vaults.
BetterVault(vaultsData) ==
    LET vault1 == vaultsData[FindVault(vaultsData, VAULT_1)]
        vault2 == vaultsData[FindVault(vaultsData, VAULT_2)]
    IN  IF vault1.totalNetApy - vault2.totalNetApy > 0 THEN vault1 ELSE vault2

(***************************************************************************)
(* The position monitors.                                                  *)
(***************************************************************************)
Positions ==
    { [borrowedAmount |-> 1000, borrowPrice |-> 1, collateralAmount |-> 1,
       collateralPrice |-> 2000, lltv |-> 8000],
      [borrowedAmount |-> 1400, borrowPrice |-> 1, collateralAmount |-> 1,
       collateralPrice |-> 2000, lltv |-> 8000],
      [borrowedAmount |-> 1700, borrowPrice |-> 1, collateralAmount |-> 1,
       collateralPrice |-> 2000, lltv |-> 8000] }

NoPosition ==
    [borrowedAmount |-> 0, borrowPrice |-> 0, collateralAmount |-> 0,
     collateralPrice |-> 0, lltv |-> 0]

\* Faulty variant of toAssetsUp: the quotient is rounded down.
toAssetsUp_RoundsDown(borrowShares, totalBorrowAssets, totalBorrowShares) ==
    (borrowShares * (totalBorrowAssets + VIRTUAL_ASSETS))
        \div (totalBorrowShares + VIRTUAL_SHARES)

\* borrowedAssets of getPositionData: mulDivUp on BigInts, whose division
\* truncates.
toAssetsUp(borrowShares, totalBorrowAssets, totalBorrowShares) ==
    LET numerator == borrowShares * (totalBorrowAssets + VIRTUAL_ASSETS)
        denominator == totalBorrowShares + VIRTUAL_SHARES
    IN  (numerator + denominator - 1) \div denominator

\* The read at which the chain RPC fails in one call of getPositionData.
RpcFailures == {"params", "feeds", "tokens", "read"}

\* One call's reads: all succeed and give a position, or one of them fails.
RpcOutcomes ==
    [fail : {"none"}, position : Positions]
    \cup [fail : RpcFailures, position : {NoPosition}]

NoCache == [marketParams |-> FALSE, feedsReady |-> FALSE]

\* getPositionData: the position read (ok), or null, and the cache it leaves.
\* The block under `if (!this.marketParams)` runs only while nothing is cached;
\* the feed contracts are module-level variables set inside that block.
getPositionData(rpc, c) ==
    LET init == ~c.marketParams
        mp == c.marketParams \/ (init /\ rpc.fail # "params")
        fr == c.feedsReady \/ (init /\ rpc.fail \notin {"params", "feeds"})
        failed == \/ (init /\ rpc.fail \in {"params", "feeds", "tokens"})
                  \/ rpc.fail = "read"
                  \/ ~fr
    IN  [ok |-> ~failed,
         data |-> rpc.position,
         cache |-> [marketParams |-> mp, feedsReady |-> fr]]

(***************************************************************************)
(* JavaScript numbers, as far as the risk calculators need them: a number  *)
(* is finite (tag "num", the fraction n/d in lowest terms, d > 0),         *)
(* Infinity ("inf"), -Infinity ("ninf") or NaN ("nan").  Finite arithmetic *)
(* is exact here; the rounding of doubles is modelled further below.       *)
(***************************************************************************)
RECURSIVE Gcd(_, _)
Gcd(a, b) == IF b = 0 THEN a ELSE Gcd(b, a % b)

Frac(n, d) ==
    LET sn == IF d < 0 THEN -n ELSE n
        sd == Abs(d)
        g == Gcd(Abs(sn), sd)
    IN  [tag |-> "num", n |-> sn \div g, d |-> sd \div g]

Num(n) == [tag |-> "num", n |-> n, d |-> 1]
JsInfinity == [tag |-> "inf", n |-> 0, d |-> 1]
JsNegInfinity == [tag |-> "ninf", n |-> 0, d |-> 1]
JsNaN == [tag |-> "nan", n |-> 0, d |-> 1]

\* -1, 0 or 1 for a number that is not NaN.
JsSign(x) ==
    CASE x.tag = "inf" -> 1
      [] x.tag = "ninf" -> -1
      [] OTHER -> IF x.n > 0 THEN 1 ELSE IF x.n < 0 THEN -1 ELSE 0

IsFinite(x) == x.tag = "num"

\* x * y
JsMul(x, y) ==
    IF x.tag = "nan" \/ y.tag = "nan" THEN JsNaN
    ELSE IF IsFinite(x) /\ IsFinite(y) THEN Frac(x.n * y.n, x.d * y.d)
    ELSE IF JsSign(x) * JsSign(y) = 0 THEN JsNaN
    ELSE IF JsSign(x) * JsSign(y) > 0 THEN JsInfinity
    ELSE JsNegInfinity

\* x / y: a finite number divided by 0 is NaN (0 / 0) or an infinity.
JsDiv(x, y) ==
    IF x.tag = "nan" \/ y.tag = "nan" THEN JsNaN
    ELSE IF ~IsFinite(x) /\ ~IsFinite(y) THEN JsNaN
    ELSE IF ~IsFinite(y) THEN Num(0)
    ELSE IF ~IsFinite(x)
         THEN IF JsSign(x) * (IF JsSign(y) < 0 THEN -1 ELSE 1) > 0
              THEN JsInfinity
              ELSE JsNegInfinity
    ELSE IF y.n = 0
         THEN IF x.n = 0 THEN JsNaN
              ELSE IF x.n > 0 THEN JsInfinity
              ELSE JsNegInfinity
    ELSE Frac(x.n * y.d, x.d * y.n)

\* x - y
JsSub(x, y) ==
    IF x.tag = "nan" \/ y.tag = "nan" THEN JsNaN
    ELSE IF IsFinite(x) /\ IsFinite(y)
         THEN Frac(x.n * y.d - y.n * x.d, x.d * y.d)
    ELSE IF x.tag = y.tag THEN JsNaN
    ELSE IF x.tag = "inf" \/ y.tag = "ninf" THEN JsInfinity
    ELSE JsNegInfinity

\* x >= y: false when either is NaN.
JsGe(x, y) ==
    IF x.tag = "nan" \/ y.tag = "nan" THEN FALSE
    ELSE IF x.tag = "inf" \/ y.tag = "ninf" THEN TRUE
    ELSE IF x.tag = "ninf" \/ y.tag = "inf" THEN FALSE
    ELSE x.n * y.d >= y.n * x.d

\* data.lltv and LTV_ALERT_THRESHOLD as numbers: parseFloat of a decimal.
LltvOf(data) == Frac(data.lltv, LTV_ONE)
LtvAlertThreshold == Frac(LTV_ALERT_THRESHOLD, LTV_ONE)

\* Faulty variant of calculateLtv: the guard for no collateral is missing.
calculateLtv_NoGuard(data) ==
    JsDiv(Num(data.borrowedAmount * data.borrowPrice),
          Num(data.collateralAmount * data.collateralPrice))

\* Faulty variant of calculateLiquidationPrice: the formula of the comment
\* above it, (borrowedAmount * borrowPrice * lltv) / collateralAmount.
calculateLiquidationPrice_AsCommented(data) ==
    IF data.borrowedAmount = 0
    THEN Num(0)
    ELSE JsDiv(JsMul(Num(data.borrowedAmount * data.borrowPrice),
                     Frac(data.lltv, LTV_ONE)),
               Num(data.collateralAmount))

\* Faulty variant of calculateBufferPercentage: the used share of the
\* threshold instead of the remaining one.
calculateBufferPercentage_Used(currentLtv, lltv) ==
    IF lltv = Num(0)
    THEN Num(100)
    ELSE JsMul(Num(100), JsDiv(currentLtv, lltv))

calculateLtv(data) ==
    IF data.collateralAmount = 0
    THEN Num(0)
    ELSE JsDiv(Num(data.borrowedAmount * data.borrowPrice),
               Num(data.collateralAmount * data.collateralPrice))

calculateLiquidationPrice(data) ==
    IF data.borrowedAmount = 0
    THEN Num(0)
    ELSE JsDiv(Num(data.borrowedAmount * data.borrowPrice),
               JsMul(Num(data.collateralAmount), LltvOf(data)))

calculateBufferPercentage(currentLtv, lltv) ==
    IF lltv = Num(0)
    THEN Num(100)
    ELSE JsMul(Num(100), JsSub(Num(1), JsDiv(currentLtv, lltv)))

\* The alert condition: currentLtv >= LTV_ALERT_THRESHOLD in the Telegram
\* monitor, currentLtv >= data.lltv * LTV_ALERT_THRESHOLD in the console one.
PositionTrigger(k, data) ==
    IF k = "console"
    THEN JsGe(calculateLtv(data), JsMul(LltvOf(data), LtvAlertThreshold))
    ELSE JsGe(calculateLtv(data), LtvAlertThreshold)

(***************************************************************************)
(* IEEE 754 doubles, for the relations between results that rounding can   *)
(* break.  A positive finite Number is [m, e] with value m * 2^e and        *)
(* 2^52 <= m < 2^53; m is a natural number written in four limbs of 27     *)
(* bits, least significant first.  `*` and `/` round to nearest, ties to   *)
(* even, as ECMAScript defines them.  Zero, negative numbers, subnormals   *)
(* and overflow do not occur for the positions evaluated with this layer.  *)
(***************************************************************************)
LimbBits == 27
Limb == 2 ^ LimbBits
Limbs == 1..4
BigZero == <<0, 0, 0, 0>>
BigOf(n) == <<n % Limb, n \div Limb, 0, 0>>

\* The limb at position i, 0 outside the number.
LimbAt(a, i) == IF i \in Limbs THEN a[i] ELSE 0

RECURSIVE BigAddCarry(_, _, _)
BigAddCarry(a, b, carry) ==
    IF a = <<>>
    THEN <<>>
    ELSE LET t == Head(a) + Head(b) + carry
         IN  <<t % Limb>> \o BigAddCarry(Tail(a), Tail(b), t \div Limb)

BigAdd(a, b) == BigAddCarry(a, b, 0)

\* a - b for a >= b.
RECURSIVE BigSubBorrow(_, _, _)
BigSubBorrow(a, b, borrow) ==
    IF a = <<>>
    THEN <<>>
    ELSE LET t == Head(a) - Head(b) - borrow
         IN  <<(t + Limb) % Limb>>
                \o BigSubBorrow(Tail(a), Tail(b), IF t < 0 THEN 1 ELSE 0)

BigSub(a, b) == BigSubBorrow(a, b, 0)

\* a >= b: the most significant limb in which they differ decides.
BigGe(a, b) ==
    LET differ == {i \in Limbs : a[i] # b[i]}
    IN  differ = {} \/
        LET top == CHOOSE i \in differ : \A j \in differ : j <= i
        IN  a[top] > b[top]

BigOdd(a) == a[1] % 2 = 1

\* a * 2^k and a \div 2^k.
BigShiftLeft(a, k) ==
    LET q == k \div LimbBits
        r == k % LimbBits
        limb(i) == (LimbAt(a, i - q) % 2 ^ (LimbBits - r)) * 2 ^ r
                      + LimbAt(a, i - q - 1) \div 2 ^ (LimbBits - r)
    IN  <<limb(1), limb(2), limb(3), limb(4)>>

BigShiftRight(a, k) ==
    LET q == k \div LimbBits
        r == k % LimbBits
        limb(i) == LimbAt(a, i + q) \div 2 ^ r
                      + (LimbAt(a, i + q + 1) % 2 ^ r) * 2 ^ (LimbBits - r)
    IN  <<limb(1), limb(2), limb(3), limb(4)>>

\* The number of bits of a: 0 for 0.
BitLength(a) ==
    LET used == {i \in Limbs : a[i] # 0}
    IN  IF used = {}
        THEN 0
        ELSE LET top == CHOOSE i \in used : \A j \in used : j <= i
                 bits == CHOOSE k \in 1..LimbBits :
                            2 ^ (k - 1) <= a[top] /\ a[top] < 2 ^ k
             IN  LimbBits * (top - 1) + bits

\* In the loops below each step's result is bound through a singleton set,
\* which makes it a value before the next step uses it.

\* acc + a * b by shift and add, for b below 2^bits.
RECURSIVE MulAdd(_, _, _, _)
MulAdd(acc, a, b, bits) ==
    IF bits = 0
    THEN acc
    ELSE CHOOSE p \in
            {MulAdd(s.acc, s.a, s.b, s.bits) :
                s \in {[acc |-> IF b % 2 = 1 THEN BigAdd(acc, a) ELSE acc,
                        a |-> BigShiftLeft(a, 1),
                        b |-> b \div 2,
                        bits |-> bits - 1]}} : TRUE

\* a * b for b of two limbs.
BigMul(a, b) ==
    CHOOSE p \in
        {MulAdd(low, BigShiftLeft(a, LimbBits), b[2], LimbBits) :
            low \in {MulAdd(BigZero, a, b[1], LimbBits)}} : TRUE

\* The double nearest to (v + f) * 2^e, where f in [0, 1) is what has been
\* cut off below v and sticky tells whether f > 0.  A v of fewer than 54
\* bits comes with f = 0.
RoundUp(kept, rest, half, sticky) ==
    IF rest = half THEN sticky \/ BigOdd(kept) ELSE BigGe(rest, half)

Rounded(v, n, e, sticky) ==
    IF n <= 53
    THEN [m |-> BigShiftLeft(v, 53 - n), e |-> e - (53 - n)]
    ELSE CHOOSE x \in
            {IF BitLength(m) > 53
             THEN [m |-> BigShiftRight(m, 1), e |-> e + (n - 53) + 1]
             ELSE [m |-> m, e |-> e + (n - 53)] :
                m \in {IF RoundUp(kept, rest, half, sticky)
                       THEN BigAdd(kept, BigOf(1))
                       ELSE kept :
                          kept \in {BigShiftRight(v, n - 53)},
                          rest \in {BigSub(v, BigShiftLeft(BigShiftRight(v, n - 53),
                                                          n - 53))},
                          half \in {BigShiftLeft(BigOf(1), n - 53 - 1)}}} : TRUE

RoundToDouble(v, e, sticky) ==
    CHOOSE x \in
        {Rounded(value, BitLength(value), exponent, inexact) :
            value \in {v}, exponent \in {e}, inexact \in {sticky}} : TRUE

\* A positive integer below 2^31 as a Number.
DoubleOf(n) == RoundToDouble(BigOf(n), 0, FALSE)

\* x * y
DoubleMul(x, y) ==
    CHOOSE z \in
        {RoundToDouble(BigMul(a.m, b.m), a.e + b.e, FALSE) :
            a \in {x}, b \in {y}} : TRUE

\* Binary long division: `steps` more bits of the quotient of r / d, r < d.
DivisionStep(r2, d, q2, steps) ==
    IF BigGe(r2, d)
    THEN [r |-> BigSub(r2, d), d |-> d, q |-> BigAdd(q2, BigOf(1)),
          steps |-> steps - 1]
    ELSE [r |-> r2, d |-> d, q |-> q2, steps |-> steps - 1]

RECURSIVE LongDivision(_, _, _, _)
LongDivision(r, d, q, steps) ==
    IF steps = 0
    THEN [q |-> q, r |-> r]
    ELSE CHOOSE x \in
            {LongDivision(s.r, s.d, s.q, s.steps) :
                s \in {DivisionStep(r2, d, q2, steps) :
                          r2 \in {BigShiftLeft(r, 1)},
                          q2 \in {BigShiftLeft(q, 1)}}} : TRUE

\* x / y: the leading bit of the quotient of the mantissas and 54 bits
\* after it, the remainder as the sticky bit.
Quotient(x, y) ==
    LET first == BigGe(x.m, y.m)
        d == CHOOSE out \in
                {LongDivision(h.r, y.m, h.q, LimbBits) :
                    h \in {LongDivision(IF first THEN BigSub(x.m, y.m) ELSE x.m,
                                        y.m,
                                        IF first THEN BigOf(1) ELSE BigZero,
                                        LimbBits)}} : TRUE
    IN  CHOOSE z \in
            {RoundToDouble(res.q, x.e - y.e - 2 * LimbBits, res.r # BigZero) :
                res \in {d}} : TRUE

DoubleDiv(x, y) == CHOOSE z \in {Quotient(a, b) : a \in {x}, b \in {y}} : TRUE

\* x >= y
DoubleGe(x, y) == x.e > y.e \/ (x.e = y.e /\ BigGe(x.m, y.m))

\* parseFloat of the decimal string for n / d, d a power of ten.
ParseDecimal(dec) == DoubleDiv(DoubleOf(dec[1]), DoubleOf(dec[2]))

\* The position data: every field is parseFloat of a decimal string
\* (formatUnits, formatEther), here given as <<n, d>> for n / d.
ParsePosition(p) ==
    [borrowedAmount |-> ParseDecimal(p.borrowedAmount),
     borrowPrice |-> ParseDecimal(p.borrowPrice),
     collateralAmount |-> ParseDecimal(p.collateralAmount),
     collateralPrice |-> ParseDecimal(p.collateralPrice),
     lltv |-> ParseDecimal(p.lltv)]

\* calculateLtv and calculateLiquidationPrice in doubles, for position data
\* whose amounts, prices and lltv are positive: neither guard returns.
calculateLtvRounded(data) ==
    DoubleDiv(DoubleMul(data.borrowedAmount, data.borrowPrice),
              DoubleMul(data.collateralAmount, data.collateralPrice))

calculateLiquidationPriceRounded(data) ==
    DoubleDiv(DoubleMul(data.borrowedAmount, data.borrowPrice),
              DoubleMul(data.collateralAmount, data.lltv))

(***************************************************************************)
(* logAlert and TelegramNotifier.sendMessage.                              *)
(***************************************************************************)
\* Faulty variant of CooldownInEffect: the cooldown taken a unit too short.
CooldownInEffect_Short(currentTime, last, cooldown) ==
    currentTime - last < cooldown - 1

\* Faulty variant of CooldownInEffect: after the first alert the cooldown
\* never ends.
CooldownInEffect_Sticky(currentTime, last, cooldown) ==
    last # 0 \/ currentTime - last < cooldown

\* Faulty variant of logAlert: a suppressed attempt stamps lastAlertTime.
logAlert_StampsSuppressed(k, currentTime, last, cooldown) ==
    IF currentTime - last < cooldown
    THEN [sent |-> FALSE, awaiting |-> FALSE, lastAlertTime |-> currentTime]
    ELSE IF k = "console"
         THEN [sent |-> TRUE, awaiting |-> FALSE, lastAlertTime |-> currentTime]
         ELSE [sent |-> TRUE, awaiting |-> TRUE, lastAlertTime |-> last]

\* Faulty variant of logAlert: the cooldown test is missing.
logAlert_NoCooldown(k, currentTime, last, cooldown) ==
    IF k = "console"
    THEN [sent |-> TRUE, awaiting |-> FALSE, lastAlertTime |-> currentTime]
    ELSE [sent |-> TRUE, awaiting |-> TRUE, lastAlertTime |-> last]

\* Faulty variant of sendMessage: the caught error is thrown again.
sendMessage_Rethrows(net) == IF net = "error" THEN "throw" ELSE "response"

\* Faulty variant of logAlertResume: only a delivered notification stamps.
logAlertResume_OnSuccessOnly(currentTime, last, result) ==
    IF result = "throw"
    THEN [rejected |-> TRUE, lastAlertTime |-> last]
    ELSE IF result = "null"
         THEN [rejected |-> FALSE, lastAlertTime |-> last]
         ELSE [rejected |-> FALSE, lastAlertTime |-> currentTime]

\* this.alertCooldown, set by the constructor.
alertCooldown(k) ==
    IF k = "console" THEN CONSOLE_ALERT_COOLDOWN ELSE ALERT_COOLDOWN

\* if (currentTime - this.lastAlertTime < this.alertCooldown)
CooldownInEffect(currentTime, last, cooldown) == currentTime - last < cooldown

\* logAlert up to its await: whether a notification goes out, whether the call
\* then waits for sendMessage, and this.lastAlertTime when it yields.  The
\* console monitor prints and stamps at once.
logAlert(k, currentTime, last, cooldown) ==
    IF CooldownInEffect(currentTime, last, cooldown)
    THEN [sent |-> FALSE, awaiting |-> FALSE, lastAlertTime |-> last]
    ELSE IF k = "console"
         THEN [sent |-> TRUE, awaiting |-> FALSE, lastAlertTime |-> currentTime]
         ELSE [sent |-> TRUE, awaiting |-> TRUE, lastAlertTime |-> last]

\* What the network does to one request.
NetOutcomes == {"ok", "error"}

\* sendMessage: the response, or null after a caught error; it never throws.
sendMessage(net) == IF net = "error" THEN "null" ELSE "response"

\* logAlert after its await: this.lastAlertTime = currentTime unless the await
\* threw, in which case the call rejects.
logAlertResume(currentTime, last, result) ==
    IF result = "throw"
    THEN [rejected |-> TRUE, lastAlertTime |-> last]
    ELSE [rejected |-> FALSE, lastAlertTime |-> currentTime]

\* A rejected logAlert is caught by monitor's try/catch where it is awaited
\* (the vault monitor); the Telegram position monitor calls logAlert without
\* await, so its rejection is handled by nobody.
RejectionEscapes(k) == k = "telegram"

(***************************************************************************)
(* The state machine.                                                      *)
(***************************************************************************)
\* lastCycle before any cycle has been evaluated: done is FALSE.  ok: the cycle
\* had its snapshot; v1, v2: its totalNetApy values; same: both equal the
\* baseline the cycle found; trigger: it called logAlert; sent: which dispatched.
NoCycle ==
    [done |-> FALSE, ok |-> FALSE, v1 |-> NULL, v2 |-> NULL, same |-> FALSE,
     trigger |-> FALSE, sent |-> FALSE]

\* No calculation is looked at on its own.
NoCalc == [fn |-> "none", done |-> TRUE, arg |-> <<>>, res |-> <<>>]

\* The constructors: lastAlertTime 0, null baselines, nothing cached.
Init ==
    /\ calc = NoCalc
    /\ kind \in Kinds
    /\ checkInterval \in CheckIntervals
    /\ apyDiffThreshold \in (IF kind = "vault" THEN ApyDiffThresholds ELSE {0})
    /\ now = StartTime
    /\ mainPc = "new"
    /\ nextFire = NULL
    /\ fetching = 0
    /\ sending = <<>>
    /\ started = 0
    /\ lastAlertTime = 0
    /\ lastVault1NetApy = NULL
    /\ lastVault2NetApy = NULL
    /\ cache = NoCache
    /\ crashed = FALSE
    /\ alertLog = <<>>
    /\ sendFailed = FALSE
    /\ overlapped = FALSE
    /\ lastCycle = NoCycle

config == <<kind, checkInterval, apyDiffThreshold, calc>>
baseline == <<lastVault1NetApy, lastVault2NetApy>>
history == <<alertLog, sendFailed, overlapped, lastCycle>>

\* The times at which a notification was dispatched, in order.
Dispatched(log) ==
    LET sent == SelectSeq(log, LAMBDA e : e.sent)
    IN  [i \in 1..Len(sent) |-> sent[i].time]

LastDispatch(log) ==
    IF Dispatched(log) = <<>> THEN NULL
    ELSE Dispatched(log)[Len(Dispatched(log))]

\* logAlert is awaited by the vault monitor's cycle only: there a send in
\* flight is a cycle that has not returned.
SendIsAwaited == kind = "vault"

\* The calls of monitor that have not returned.
ActiveCycles == fetching + (IF SendIsAwaited THEN Len(sending) ELSE 0)

\* Everything some cycle has left pending.
PendingWork == fetching + Len(sending)

RemoveAt(s, i) == [j \in 1..(Len(s) - 1) |-> IF j < i THEN s[j] ELSE s[j + 1]]

\* monitor() is called: it runs up to the await of its fetch.
StartCycle ==
    /\ fetching' = fetching + 1
    /\ started' = started + 1

\* `await monitor()` of the initial check is followed by setInterval: the
\* timer is armed when the first cycle returns.
Arm(cycleEnds) ==
    IF cycleEnds /\ mainPc = "initial"
    THEN mainPc' = "armed" /\ nextFire' = now + checkInterval
    ELSE UNCHANGED <<mainPc, nextFire>>

\* monitorVaults() / monitorPosition() is called at process start.  The vault
\* monitor first awaits the send of its start message.
MonitorStart ==
    /\ ~crashed
    /\ mainPc = "new"
    /\ IF kind = "vault"
       THEN mainPc' = "startSend" /\ UNCHANGED <<fetching, started>>
       ELSE mainPc' = "initial" /\ StartCycle
    /\ UNCHANGED <<config, now, nextFire, sending, lastAlertTime, baseline,
                   cache, crashed, history>>

\* Faulty variant of StartupSendReturns: the start message counts as an alert
\* and stamps lastAlertTime.
StartupSendReturns_Stamps ==
    \E net \in NetOutcomes :
        /\ ~crashed
        /\ mainPc = "startSend"
        /\ mainPc' = "initial"
        /\ StartCycle
        /\ lastAlertTime' = now
        /\ UNCHANGED <<config, now, nextFire, sending, baseline, cache,
                       crashed, history>>

\* The send of the start message returns; the initial check begins.
StartupSendReturns ==
    \E net \in NetOutcomes :
        /\ ~crashed
        /\ mainPc = "startSend"
        /\ IF sendMessage(net) = "throw"
           THEN crashed' = TRUE /\ UNCHANGED <<mainPc, fetching, started>>
           ELSE mainPc' = "initial" /\ StartCycle /\ UNCHANGED crashed
        /\ UNCHANGED <<config, now, nextFire, sending, lastAlertTime, baseline,
                       cache, history>>

\* setInterval(monitor, CHECK_INTERVAL): the timer calls monitor when due,
\* whatever earlier calls are still waiting for.
TimerFire ==
    /\ ~crashed
    /\ mainPc = "armed"
    /\ now = nextFire
    /\ started < MaxCycles
    /\ StartCycle
    /\ nextFire' = nextFire + checkInterval
    /\ overlapped' = (overlapped \/ PendingWork > 0)
    /\ UNCHANGED <<config, now, mainPc, sending, lastAlertTime, baseline,
                   cache, crashed, alertLog, sendFailed, lastCycle>>

\* The rest of a cycle once its snapshot is there (or is not): the trigger,
\* then logAlert up to its await.
Evaluate(ok, trigger, cause, v1, v2) ==
    LET a == IF trigger
             THEN logAlert(kind, now, lastAlertTime, alertCooldown(kind))
             ELSE [sent |-> FALSE, awaiting |-> FALSE,
                   lastAlertTime |-> lastAlertTime]
    IN  /\ fetching' = fetching - 1
        /\ lastAlertTime' = a.lastAlertTime
        /\ sending' = IF a.awaiting THEN Append(sending, now) ELSE sending
        /\ Arm(~(a.awaiting /\ SendIsAwaited))
        /\ alertLog' = IF trigger
                       THEN Append(alertLog, [time |-> now, sent |-> a.sent,
                                              cause |-> cause])
                       ELSE alertLog
        /\ lastCycle' = [done |-> TRUE, ok |-> ok, v1 |-> v1, v2 |-> v2,
                         same |-> (ok /\ v1 = lastVault1NetApy
                                      /\ v2 = lastVault2NetApy),
                         trigger |-> trigger, sent |-> a.sent]

\* fetchVaultData returns to a cycle of the vault monitor.
VaultFetchReturns ==
    \E response \in VaultResponses :
        /\ ~crashed
        /\ kind = "vault"
        /\ fetching > 0
        /\ LET e == VaultEval(response, lastVault1NetApy, lastVault2NetApy,
                              apyDiffThreshold)
           IN  /\ lastVault1NetApy' = e.last1
               /\ lastVault2NetApy' = e.last2
               /\ Evaluate(e.ok, e.trigger, e.cause, e.v1, e.v2)
        /\ UNCHANGED <<config, now, started, cache, crashed, sendFailed,
                       overlapped>>

\* getPositionData returns to a cycle of a position monitor.
PositionFetchReturnsWith(rpc) ==
    /\ ~crashed
    /\ kind # "vault"
    /\ fetching > 0
    /\ LET g == getPositionData(rpc, cache)
       IN  /\ cache' = g.cache
           /\ Evaluate(g.ok, g.ok /\ PositionTrigger(kind, g.data), "ltv",
                       NULL, NULL)
    /\ UNCHANGED <<config, now, started, baseline, crashed, sendFailed,
                   overlapped>>

PositionFetchReturns == \E rpc \in RpcOutcomes : PositionFetchReturnsWith(rpc)

\* sendMessage returns to logAlert, which stamps lastAlertTime with the time
\* it read before the send.  Sends return in any order.
SendReturns ==
    \E i \in 1..Len(sending), net \in NetOutcomes :
        /\ ~crashed
        /\ LET r == logAlertResume(sending[i], lastAlertTime, sendMessage(net))
           IN  /\ lastAlertTime' = r.lastAlertTime
               /\ crashed' = (r.rejected /\ RejectionEscapes(kind))
        /\ sending' = RemoveAt(sending, i)
        /\ Arm(SendIsAwaited)
        /\ sendFailed' = (net = "error")
        /\ UNCHANGED <<config, now, fetching, started, baseline, cache,
                       alertLog, overlapped, lastCycle>>

\* Time passes.  A due timer fires before the clock moves on.
Tick ==
    /\ ~crashed
    /\ mainPc # "new"
    /\ now < MaxTime
    /\ (mainPc = "armed" /\ started < MaxCycles) => now < nextFire
    /\ now' = now + 1
    /\ UNCHANGED <<config, mainPc, nextFire, fetching, sending, started,
                   lastAlertTime, baseline, cache, crashed, history>>

Next ==
    \/ MonitorStart
    \/ StartupSendReturns
    \/ TimerFire
    \/ VaultFetchReturns
    \/ PositionFetchReturns
    \/ SendReturns
    \/ Tick

Spec == Init /\ [][Next]_vars

\* The event loop runs what is ready: the start of the monitor, a due timer,
\* the clock.  Nothing makes an external call return.
FairSpec ==
    Spec /\ WF_vars(MonitorStart) /\ WF_vars(TimerFire) /\ WF_vars(Tick)

\* A fetch returns with a complete snapshot whose alert condition holds.
TriggerWorthyFetchReturns ==
    /\ VaultFetchReturns \/ PositionFetchReturns
    /\ lastCycle'.ok
    /\ lastCycle'.trigger

\* The monitors while every fetch succeeds and every cycle is trigger-worthy.
NextLive ==
    \/ MonitorStart
    \/ StartupSendReturns
    \/ TimerFire
    \/ TriggerWorthyFetchReturns
    \/ SendReturns
    \/ Tick

\* Cycles keep running with successful fetches: a fetch that is awaited
\* returns (as a step of NextLive, with a trigger-worthy snapshot).  Nothing
\* is assumed about the sends.
LiveSpec ==
    /\ Init
    /\ [][NextLive]_vars
    /\ WF_vars(VaultFetchReturns)
    /\ WF_vars(PositionFetchReturns)

(***************************************************************************)
(* The calculations on their own: one calculation is applied to one input. *)
(***************************************************************************)
\* position.borrowShares and the market's totals, in base units.
ShareInputs ==
    [borrowShares : {0, 1, 999999, 1000000, 1500000, 2000001},
     totalBorrowAssets : {0, 1, 2, 999},
     totalBorrowShares : {0, 1, 500000, 1000000}]

(***************************************************************************)
(* The comparison of the two vaults: the report of fetchAndSaveVaults and  *)
(* the recommendation in the vault monitor's alert message.  A vault is    *)
(* [name, totalNetApy, timelock]; the outputs name vaults by name, "none"  *)
(* where they name no vault.                                               *)
(***************************************************************************)
\* parseInt(safeGet(vault, 'state.timelock', 0))
TimelockOf(vault) == IF vault.timelock = NULL THEN 0 ELSE vault.timelock

\* Faulty variant of IsEffectivelyEqual: the sign of the difference counts.
IsEffectivelyEqual_Signed(totalNetApyDiff) == totalNetApyDiff < EQUAL_TOLERANCE

\* Math.abs(totalNetApyDiff) < 0.00005
IsEffectivelyEqual(totalNetApyDiff) == Abs(totalNetApyDiff) < EQUAL_TOLERANCE

\* Faulty variant of TieBreak: the longer timelock is recommended.
TieBreak_Longer(vault1, vault2) ==
    IF TimelockOf(vault1) > TimelockOf(vault2) THEN vault1.name
    ELSE IF TimelockOf(vault2) > TimelockOf(vault1) THEN vault2.name
    ELSE "none"

\* The recommendation among effectively equal vaults.
TieBreak(vault1, vault2) ==
    IF TimelockOf(vault1) < TimelockOf(vault2) THEN vault1.name
    ELSE IF TimelockOf(vault2) < TimelockOf(vault1) THEN vault2.name
    ELSE "none"

\* Faulty variant of TimelockComparison: shown for equal timelocks too.
TimelockComparison_Always(vault1, vault2) ==
    IF TimelockOf(vault1) < TimelockOf(vault2) THEN vault1.name ELSE vault2.name

\* The separate timelock comparison: the vault it names, "none" if not shown.
TimelockComparison(vault1, vault2) ==
    IF TimelockOf(vault1) # TimelockOf(vault2)
    THEN IF TimelockOf(vault1) < TimelockOf(vault2) THEN vault1.name ELSE vault2.name
    ELSE "none"

\* The APY comparison result of fetchAndSaveVaults.
ComparisonReport(vault1, vault2) ==
    LET totalNetApyDiff == vault1.totalNetApy - vault2.totalNetApy
    IN  IF IsEffectivelyEqual(totalNetApyDiff)
        THEN LET shorter == TieBreak(vault1, vault2)
             IN  [diff |-> totalNetApyDiff,
                  equal |-> TRUE,
                  higher |-> "none",
                  magnitude |-> NULL,
                  recommendation |-> shorter,
                  basis |-> IF shorter = "none" THEN "identical" ELSE "timelock",
                  shorterTimelock |-> "none"]
        ELSE LET better == IF totalNetApyDiff > 0 THEN vault1.name ELSE vault2.name
             IN  [diff |-> totalNetApyDiff,
                  equal |-> FALSE,
                  higher |-> better,
                  magnitude |-> Abs(totalNetApyDiff),
                  recommendation |-> better,
                  basis |-> "returns",
                  shorterTimelock |-> TimelockComparison(vault1, vault2)]

NoMessage == [sent |-> FALSE, better |-> "none", worse |-> "none", higherBy |-> NULL]

\* The first cycle of the vault monitor on vault1 = VAULT_1, vault2 = VAULT_2:
\* the recommendation of the alert message, if the alert condition holds.
AlertMessage(vault1, vault2, threshold) ==
    LET apyDiff == vault1.totalNetApy - vault2.totalNetApy
        absDiff == Abs(apyDiff)
        betterVault == IF apyDiff > 0 THEN vault1 ELSE vault2
        worseVault == IF apyDiff > 0 THEN vault2 ELSE vault1
    IN  IF ShouldAlert(absDiff, threshold, FALSE)
        THEN [sent |-> TRUE, better |-> betterVault.name,
              worse |-> worseVault.name, higherBy |-> absDiff]
        ELSE NoMessage

\* Position data as getPositionData returns it.  policy is the alert policy
\* the operator wants; no monitor reads such a setting.
RiskInputs ==
    [borrowedAmount : {0, 1000, 1400, 1700},
     borrowPrice : {0, 1},
     collateralAmount : {0, 1},
     collateralPrice : {0, 2000},
     lltv : {0, 8000, LTV_ONE},
     policy : {"relative", "absolute"}]

PositionKinds == {"telegram", "console"}

\* Positive position data as decimals <<n, d>>: 1000 or 69.3 borrowed at a
\* price of 1, 1 or 3 of collateral at 30, 1500 or 2000, and an lltv of
\* 77%, 80% or 91.5%.
ConsistencyInputs ==
    [borrowedAmount : {<<1000, 1>>, <<693, 10>>},
     borrowPrice : {<<1, 1>>},
     collateralAmount : {<<1, 1>>, <<3, 1>>},
     collateralPrice : {<<30, 1>>, <<1500, 1>>, <<2000, 1>>},
     lltv : {<<7700, LTV_ONE>>, <<8000, LTV_ONE>>, <<9150, LTV_ONE>>}]

\* Vaults as the data source may describe them: up to two direct rewards and
\* up to two allocations with up to two market rewards each; a value may be
\* missing (NULL) or 0.  The market APR is a multiple of every total the
\* allocated values can add up to, so that every weighted term is a whole
\* number of units.
MaxRewards == 2
MaxAllocations == 2
SeqsUpTo(S, n) == UNION {[1..k -> S] : k \in 0..n}
MarketRewardAprs == {NULL, 60}
AllocationValues == {NULL, 0, 1, 2}
\* The example of two allocations of equal value whose markets pay 2% and 4%.
EqualWeightExample ==
    [state |-> [netApy |-> 5000, rewards |-> <<>>,
                allocation |-> << [supplyAssetsUsd |-> 1, rewards |-> <<2000>>],
                                  [supplyAssetsUsd |-> 1, rewards |-> <<4000>>] >>]]

\* Vaults some of whose reward entries have no supplyApr or one that is no
\* number.
MalformedAprs == {NULL, NON_NUMERIC}
MalformedRewardInputs ==
    [state : [netApy : {5000},
              rewards : SeqsUpTo(MalformedAprs \cup {10}, MaxRewards),
              allocation :
                  {<<>>} \cup
                  { << [supplyAssetsUsd |-> 2, rewards |-> r] >> :
                        r \in SeqsUpTo(MalformedAprs \cup {60}, MaxRewards) }]]

RewardInputs ==
    [state : [netApy : {5000},
              rewards : {<<>>, <<10, NULL>>, <<10, 20>>},
              allocation : SeqsUpTo([supplyAssetsUsd : AllocationValues,
                                     rewards : SeqsUpTo(MarketRewardAprs, MaxRewards)],
                                    MaxAllocations)]]
    \cup {EqualWeightExample}

\* Fetched vaults whose state.apy or state.netApy may be absent or null.
FetchedVaults ==
    [address : {"0xa1"},
     state : [apy : {NULL, 0, 5200},
              netApy : {NULL, 0, 5000, 5500},
              rewards : {<<>>, <<1000>>},
              allocation : {<<>>, << [supplyAssetsUsd |-> 2, rewards |-> <<60>>] >>}]]

\* Pairs of aggregated vaults: yields that are equal, 0.00004, 0.00005 and
\* 0.005 apart, timelocks absent, 0 and one day.
AggregatedVault(name) ==
    [name : {name},
     totalNetApy : {5500, 5504, 5505, 6000},
     timelock : {NULL, 0, 86400}]

ComparisonInputs ==
    [a : AggregatedVault("A"), b : AggregatedVault("B"),
     threshold : ApyDiffThresholds]

\* A response with both vaults, the baselines the cycle finds (none, or
\* those of an earlier cycle) and the threshold.
OrderInputs ==
    [items : {<<a, b>> : a \in Vault1Items, b \in Vault2Items},
     last : {<<NULL, NULL>>, <<5000, 5000>>, <<5000, 5060>>},
     threshold : ApyDiffThresholds]

Reversed(items) == [i \in 1..Len(items) |-> items[Len(items) + 1 - i]]

\* What a cycle of the vault monitor computes from a response with both
\* vaults: apyDiff, the alert decision, the recommended vault and the
\* baselines it records.
CycleOutcome(items, last, threshold) ==
    LET response == [error |-> FALSE, items |-> items]
        e == VaultEval(response, last[1], last[2], threshold)
    IN  [apyDiff |-> e.v1 - e.v2,
         trigger |-> e.trigger,
         recommended |-> BetterVault(fetchVaultData(response)).address,
         lastVault1NetApy |-> e.last1,
         lastVault2NetApy |-> e.last2]

\* The values safeGet is called on: primitives (falsy ones among them),
\* null, undefined, and objects nested two deep.
Primitives == {Prim("0"), Prim("''"), Prim("false"), Prim("7"), Prim("'x'")}
Leaves == Primitives \cup {Null, Undefined}
InnerObjects ==
    {Obj(NoProperties)} \cup {Obj([NoProperties EXCEPT !["b"] = x]) : x \in Leaves}
SafeGetObjects ==
    Leaves
    \cup {Obj(NoProperties)}
    \cup {Obj([NoProperties EXCEPT !["a"] = x]) : x \in Leaves \cup InnerObjects}
Paths ==
    {NotAString, "", "a", "b", "a.b", "a.b.b", "a.length", "toString", "a.toString"}
SafeGetInputs ==
    [obj : SafeGetObjects, path : Paths, defaultValue : {Prim("'N/A'"), Prim("0")}]

CalcInit ==
    /\ kind = "console"
    /\ checkInterval = 1
    /\ apyDiffThreshold = 0
    /\ now = StartTime
    /\ mainPc = "new"
    /\ nextFire = NULL
    /\ fetching = 0
    /\ sending = <<>>
    /\ started = 0
    /\ lastAlertTime = 0
    /\ lastVault1NetApy = NULL
    /\ lastVault2NetApy = NULL
    /\ cache = NoCache
    /\ crashed = FALSE
    /\ alertLog = <<>>
    /\ sendFailed = FALSE
    /\ overlapped = FALSE
    /\ lastCycle = NoCycle
    /\ \/ calc \in [fn : {"toAssetsUp"}, done : {FALSE}, arg : ShareInputs,
                     res : {<<>>}]
       \/ calc \in [fn : {"risk"}, done : {FALSE}, arg : RiskInputs,
                     res : {<<>>}]
       \/ calc \in [fn : {"rewards"}, done : {FALSE}, arg : RewardInputs,
                     res : {<<>>}]
       \/ calc \in [fn : {"malformedRewards"}, done : {FALSE},
                     arg : MalformedRewardInputs, res : {<<>>}]
       \/ calc \in [fn : {"totals"}, done : {FALSE}, arg : FetchedVaults,
                     res : {<<>>}]
       \/ calc \in [fn : {"compare"}, done : {FALSE}, arg : ComparisonInputs,
                     res : {<<>>}]
       \/ calc \in [fn : {"safeGet"}, done : {FALSE}, arg : SafeGetInputs,
                     res : {<<>>}]
       \/ calc \in [fn : {"consistency"}, done : {FALSE},
                     arg : ConsistencyInputs, res : {<<>>}]
       \/ calc \in [fn : {"order"}, done : {FALSE}, arg : OrderInputs,
                     res : {<<>>}]

monitorState ==
    <<kind, checkInterval, apyDiffThreshold, now, mainPc, nextFire, fetching,
      sending, started, lastAlertTime, baseline, cache, crashed, history>>

\* The conversion of the borrow shares in getPositionData.
ConvertShares ==
    /\ calc.fn = "toAssetsUp"
    /\ ~calc.done
    /\ calc' = [calc EXCEPT
                    !.done = TRUE,
                    !.res = [borrowedAssets |->
                                toAssetsUp(calc.arg.borrowShares,
                                           calc.arg.totalBorrowAssets,
                                           calc.arg.totalBorrowShares)]]
    /\ UNCHANGED monitorState

\* The calculators as monitor calls them on the position data, and the
\* alert condition of either position monitor.
AssessPosition ==
    /\ calc.fn = "risk"
    /\ ~calc.done
    /\ LET currentLtv == calculateLtv(calc.arg)
       IN  calc' = [calc EXCEPT
                !.done = TRUE,
                !.res = [ltv |-> currentLtv,
                         liquidationPrice |-> calculateLiquidationPrice(calc.arg),
                         bufferPercentage |->
                            calculateBufferPercentage(currentLtv, LltvOf(calc.arg)),
                         alert |-> [k \in PositionKinds |->
                                        PositionTrigger(k, calc.arg)]]]
    /\ UNCHANGED monitorState

\* fetchVaultData computes the rewards APR of a vault of the response.
ComputeRewards ==
    /\ calc.fn \in {"rewards", "malformedRewards"}
    /\ ~calc.done
    /\ calc' = [calc EXCEPT !.done = TRUE,
                            !.res = calculateTotalRewardsApr(calc.arg)]
    /\ UNCHANGED monitorState

\* targetVaults.map of fetchVaultData (and of the comparison report): the
\* totals of one fetched vault.
AggregateVault ==
    /\ calc.fn = "totals"
    /\ ~calc.done
    /\ calc' = [calc EXCEPT !.done = TRUE, !.res = WithTotals(calc.arg)]
    /\ UNCHANGED monitorState

\* The comparison report and the monitor's recommendation for the two
\* vaults, in the order (a, b) and in the order (b, a).
CompareVaults ==
    /\ calc.fn = "compare"
    /\ ~calc.done
    /\ LET a == calc.arg.a
           b == calc.arg.b
       IN  calc' = [calc EXCEPT
                !.done = TRUE,
                !.res = [report |-> ComparisonReport(a, b),
                         reversed |-> ComparisonReport(b, a),
                         alert |-> AlertMessage(a, b, calc.arg.threshold),
                         alertReversed |-> AlertMessage(b, a, calc.arg.threshold)]]
    /\ UNCHANGED monitorState

\* A call of safeGet.
CallSafeGet ==
    /\ calc.fn = "safeGet"
    /\ ~calc.done
    /\ calc' = [calc EXCEPT
                    !.done = TRUE,
                    !.res = safeGet(calc.arg.obj, calc.arg.path,
                                    calc.arg.defaultValue)]
    /\ UNCHANGED monitorState

\* calculateLtv and calculateLiquidationPrice on a position, and
\* calculateLtv again with collateralPrice replaced by the liquidation price.
RecomputeAtLiquidationPrice ==
    /\ calc.fn = "consistency"
    /\ ~calc.done
    /\ \E data \in {ParsePosition(calc.arg)} :
        \E liquidationPrice \in {calculateLiquidationPriceRounded(data)} :
            calc' = [calc EXCEPT
                !.done = TRUE,
                !.res = [ltv |-> calculateLtvRounded(data),
                         liquidationPrice |-> liquidationPrice,
                         ltvAtLiquidationPrice |->
                            calculateLtvRounded(
                                [data EXCEPT !.collateralPrice = liquidationPrice]),
                         lltv |-> data.lltv,
                         collateralPrice |-> data.collateralPrice]]
    /\ UNCHANGED monitorState

\* A cycle of the vault monitor on a response, and on the same two
\* snapshots returned in the other order.
EvaluateInBothOrders ==
    /\ calc.fn = "order"
    /\ ~calc.done
    /\ calc' = [calc EXCEPT
                    !.done = TRUE,
                    !.res = [forward |->
                                CycleOutcome(calc.arg.items, calc.arg.last,
                                             calc.arg.threshold),
                             reversed |->
                                CycleOutcome(Reversed(calc.arg.items),
                                             calc.arg.last, calc.arg.threshold)]]
    /\ UNCHANGED monitorState

CalcNext ==
    \/ ConvertShares
    \/ AssessPosition
    \/ ComputeRewards
    \/ AggregateVault
    \/ CompareVaults
    \/ CallSafeGet
    \/ RecomputeAtLiquidationPrice
    \/ EvaluateInBothOrders

CalcSpec == CalcInit /\ [][CalcNext]_vars

(***************************************************************************)
(* Properties.  The steps they speak about are recognised by their effect: *)
(* a cycle is evaluated when its fetch returns, logAlert is called when    *)
(* alertLog grows, a send returns when `sending` shrinks.                  *)
(***************************************************************************)
CycleEvaluated == fetching' < fetching
AlertCalled == Len(alertLog') > Len(alertLog)
NewEntry == alertLog'[Len(alertLog')]
SendReturned == Len(sending') < Len(sending)
HasBaseline == lastVault1NetApy # NULL /\ lastVault2NetApy # NULL

\* C1 (step): a logAlert call made at a time less than the cooldown after
\* lastAlertTime dispatches nothing.
C1_Step ==
    (AlertCalled /\ now - lastAlertTime < alertCooldown(kind)) => ~NewEntry.sent

\* C1 (consequence): as long as every cycle started with nothing of the
\* earlier cycles pending, any two dispatches are at least the cooldown apart.
C1_Apart ==
    ~overlapped =>
        \A i, j \in 1..Len(Dispatched(alertLog)) :
            i < j => Dispatched(alertLog)[j] - Dispatched(alertLog)[i]
                        >= alertCooldown(kind)

\* C1: cooldown suppression.  In every monitor a logAlert call within the
\* cooldown of lastAlertTime dispatches no notification, and when cycles run
\* one after another any two dispatched notifications are at least
\* alertCooldown apart.
C1_CooldownSuppression == [][C1_Step]_vars /\ []C1_Apart

\* Two trigger-worthy cycles 200 s apart, run one after the other, with
\* exactly one dispatch.
C1_Witness ==
    /\ ~overlapped
    /\ PendingWork = 0
    /\ Len(alertLog) = 2
    /\ alertLog[1].sent
    /\ ~alertLog[2].sent
    /\ alertLog[2].time - alertLog[1].time = 1

C2_Step ==
    /\ AlertCalled =>
        /\ ~NewEntry.sent => lastAlertTime' = lastAlertTime
        /\ (/\ LastDispatch(alertLog) # NULL
            /\ now - LastDispatch(alertLog) >= alertCooldown(kind)) => NewEntry.sent
    /\ lastAlertTime' # lastAlertTime =>
        \E i \in 1..Len(alertLog') :
            alertLog'[i].sent /\ alertLog'[i].time = lastAlertTime'

\* C2: a suppressed attempt leaves lastAlertTime unchanged, every write of
\* lastAlertTime stores the time of a logAlert call that dispatched, and a
\* trigger-worthy cycle evaluated at least alertCooldown after the last
\* dispatch dispatches, whatever was suppressed in between.
C2_SuppressedAttemptsDoNotExtend == [][C2_Step]_vars

\* A dispatch, a suppressed attempt, and then a second dispatch at least the
\* cooldown after the first.
C2_Witness ==
    /\ Len(Dispatched(alertLog)) = 2
    /\ \E i, j, k \in 1..Len(alertLog) :
        /\ i < j /\ j < k
        /\ alertLog[i].sent /\ ~alertLog[j].sent /\ alertLog[k].sent
        /\ alertLog[k].time - alertLog[i].time >= alertCooldown(kind)

\* C3: cycles never overlap: at most one call of monitor has not returned.
C3_CyclesNeverOverlap == ActiveCycles <= 1

C4_Step ==
    /\ (CycleEvaluated /\ ~lastCycle'.ok) =>
            (sending' = sending /\ alertLog' = alertLog)
    /\ mainPc = "armed" => (mainPc' = "armed" /\ nextFire' >= nextFire)

C4_TimerRuns ==
    (mainPc = "armed" /\ now = nextFire /\ started < MaxCycles)
        => ENABLED TimerFire

\* C4: per-cycle fault isolation.  No exception leaves a cycle, a cycle that
\* faulted dispatches nothing, and the timer once armed stays armed and runs
\* a cycle whenever it is due.
C4_FaultIsolation == [][C4_Step]_vars /\ [](~crashed /\ C4_TimerRuns)

\* A cycle faulted, and after it the timer has started the next cycle.
C4_Witness ==
    /\ ~overlapped
    /\ lastCycle.done
    /\ ~lastCycle.ok
    /\ mainPc = "armed"
    /\ started >= 2
    /\ fetching = 1

\* C5: the periodic timer is eventually armed, however the startup cycle and
\* the startup notification behave.
C5_TimerEventuallyArmed == <>(mainPc = "armed")

C6_Step ==
    (CycleEvaluated /\ ~lastCycle'.ok) =>
        UNCHANGED <<lastAlertTime, lastVault1NetApy, lastVault2NetApy,
                    alertLog, sending>>

\* C6: a cycle whose fetch yields no snapshot dispatches nothing and leaves
\* lastAlertTime and both baselines as they were.
C6_FetchFailureLeavesAlertState == [][C6_Step]_vars

\* A vault cycle without snapshot, after a baseline and an alert time were
\* recorded.
C6_Witness ==
    /\ kind = "vault"
    /\ lastCycle.done
    /\ ~lastCycle.ok
    /\ HasBaseline
    /\ lastAlertTime > 0

C7_Step ==
    /\ (SendReturned /\ sendFailed') =>
        /\ ~crashed'
        /\ \E i \in 1..Len(sending) :
            /\ sending' = RemoveAt(sending, i)
            /\ lastAlertTime' = sending[i]
    /\ (/\ AlertCalled
        /\ sendFailed
        /\ ~overlapped
        /\ LastDispatch(alertLog) # NULL
        /\ now - LastDispatch(alertLog) < alertCooldown(kind)) => ~NewEntry.sent

\* C7: when the send of an alert fails, nothing is thrown and lastAlertTime is
\* set to the time that logAlert call read; when cycles run one after another,
\* a trigger-worthy cycle within alertCooldown of the failed attempt is
\* suppressed.
C7_DispatchFailureStartsCooldown == [][C7_Step]_vars

\* The only dispatch failed, and the next trigger-worthy cycle was suppressed.
C7_Witness ==
    /\ sendFailed
    /\ ~crashed
    /\ ~overlapped
    /\ Len(alertLog) = 2
    /\ alertLog[1].sent
    /\ ~alertLog[2].sent
    /\ lastAlertTime = alertLog[1].time

C8_Step ==
    (kind = "vault" /\ CycleEvaluated /\ lastCycle'.ok) =>
        LET v1 == lastCycle'.v1
            v2 == lastCycle'.v2
            moved == \/ Abs(v1 - lastVault1NetApy) > APY_CHANGE_EPSILON
                     \/ Abs(v2 - lastVault2NetApy) > APY_CHANGE_EPSILON
        IN  /\ lastCycle'.trigger <=>
                (Abs(v1 - v2) >= apyDiffThreshold \/ (HasBaseline /\ moved))
            /\ ~HasBaseline =>
                (lastCycle'.trigger <=> Abs(v1 - v2) >= apyDiffThreshold)

\* C8: a vault cycle with both vaults fetched is trigger-worthy exactly when
\* the difference of the two totalNetApy is at least APY_DIFF_THRESHOLD, or a
\* baseline exists and either total differs from its baseline by more than
\* 0.0001; with a null baseline only the difference can trigger.
C8_VaultTrigger == [][C8_Step]_vars

\* A cycle triggered by a change alone: the difference is below the threshold.
C8_Witness ==
    /\ kind = "vault"
    /\ lastCycle.ok
    /\ lastCycle.trigger
    /\ ~lastCycle.same
    /\ Abs(lastCycle.v1 - lastCycle.v2) < apyDiffThreshold

\* A vault cycle that finds both totals as the cycle before left them, their
\* difference being at or above a positive threshold.
C9_UnchangedGap ==
    /\ kind = "vault"
    /\ CycleEvaluated
    /\ lastCycle'.ok
    /\ lastCycle'.same
    /\ apyDiffThreshold > 0
    /\ Abs(lastCycle'.v1 - lastCycle'.v2) >= apyDiffThreshold

\* C9 as stated: once a large unchanging gap has been alerted it does not
\* alert again on a later cycle that finds the values unchanged (here: the
\* cycle before alerted it, and the cycles ran one after another).
C9_UnchangedGapDoesNotRealert ==
    [][(C9_UnchangedGap /\ ~overlapped' /\ lastCycle.ok /\ lastCycle.sent)
            => ~lastCycle'.sent]_vars

C9_Step ==
    (kind = "vault" /\ CycleEvaluated /\ lastCycle'.ok) =>
        LET v1 == lastCycle'.v1
            v2 == lastCycle'.v2
        IN  /\ Abs(v1 - v2) >= apyDiffThreshold =>
                /\ lastCycle'.trigger
                /\ lastCycle'.sent <=> now - lastAlertTime >= alertCooldown(kind)
            /\ (lastCycle'.same /\ Abs(v1 - v2) < apyDiffThreshold) =>
                ~lastCycle'.trigger
            /\ (/\ HasBaseline
                /\ \/ Abs(v1 - lastVault1NetApy) > APY_CHANGE_EPSILON
                   \/ Abs(v2 - lastVault2NetApy) > APY_CHANGE_EPSILON) =>
                lastCycle'.trigger

\* C9, amended: a difference at or above the threshold makes every fetched
\* cycle trigger-worthy, unchanged values included, and such a cycle
\* dispatches exactly when the cooldown is over; unchanged values with a
\* difference below the threshold do not trigger, and a move of more than
\* 0.0001 in either vault does.
C9_GapAlertsEveryCooldown == [][C9_Step]_vars

\* An unchanged gap at the threshold is alerted a second time.
C9_Witness ==
    /\ kind = "vault"
    /\ apyDiffThreshold > 0
    /\ lastCycle.ok
    /\ lastCycle.same
    /\ lastCycle.sent
    /\ Abs(lastCycle.v1 - lastCycle.v2) >= apyDiffThreshold
    /\ ~overlapped
    /\ Len(Dispatched(alertLog)) = 2

\* C10: after every vault cycle whose fetch succeeded both baselines equal
\* that cycle's totalNetApy, whether the cycle triggered, dispatched or was
\* suppressed.
C10_BaselineFollowsEveryCycle ==
    (kind = "vault" /\ lastCycle.done /\ lastCycle.ok) =>
        /\ lastVault1NetApy = lastCycle.v1
        /\ lastVault2NetApy = lastCycle.v2

\* A cycle with new values whose alert the cooldown suppressed: the baseline
\* holds the cycle's values.
C10_Witness ==
    /\ kind = "vault"
    /\ lastCycle.ok
    /\ ~lastCycle.same
    /\ lastCycle.trigger
    /\ ~lastCycle.sent
    /\ lastVault1NetApy = lastCycle.v1
    /\ lastVault2NetApy = lastCycle.v2

C11_Step ==
    (kind = "vault" /\ AlertCalled) =>
        (NewEntry.sent <=> now - lastAlertTime >= alertCooldown(kind))

C11_Budget ==
    (kind = "vault" /\ ~overlapped) =>
        \A i, j \in 1..Len(alertLog) :
            (/\ i < j
             /\ alertLog[i].sent
             /\ alertLog[i].cause \in {"diff", "change", "both"}
             /\ alertLog[j].cause \in {"diff", "change", "both"}
             /\ alertLog[j].time - alertLog[i].time < alertCooldown(kind))
                => ~alertLog[j].sent

\* C11: the vault monitor has one cooldown for both alert conditions.  A
\* logAlert call dispatches exactly when alertCooldown has passed since the
\* one lastAlertTime, whichever condition caused the call; when cycles run one
\* after another a dispatch caused by either condition suppresses, for
\* alertCooldown, a later alert caused by the other.
C11_OneCooldownBudget == [][C11_Step]_vars /\ []C11_Budget

\* A dispatch caused by the APY change alone, and within the cooldown an
\* alert caused by the difference alone, which is suppressed.
C11_Witness ==
    /\ kind = "vault"
    /\ ~overlapped
    /\ \E i, j \in 1..Len(alertLog) :
        /\ i < j
        /\ alertLog[i].sent
        /\ alertLog[i].cause = "change"
        /\ alertLog[j].cause = "diff"
        /\ ~alertLog[j].sent
        /\ alertLog[j].time - alertLog[i].time < alertCooldown(kind)

\* Idle with work to do: the cooldown of the last dispatch is over (or there
\* was none), no send is in flight, and a cycle is waiting for its fetch.
C12_Idle ==
    /\ fetching > 0
    /\ sending = <<>>
    /\ now - lastAlertTime >= alertCooldown(kind)

\* Notifying or in cooldown: a send is in flight, or lastAlertTime is recent.
\* Out of C12_Idle only a dispatch leads here.
C12_NotifyingOrCooldown ==
    sending # <<>> \/ now - lastAlertTime < alertCooldown(kind)

\* C12: while fetches succeed and every cycle is trigger-worthy, the monitor
\* is never stuck in its cooldown: once alertCooldown has passed since the
\* last dispatch, the next cycle dispatches another notification.
C12_DispatchAgain == C12_Idle ~> C12_NotifyingOrCooldown

\* A second notification was dispatched after the cooldown of the first one,
\* and its send has returned: the monitor is in its cooldown again.
C12_Witness ==
    /\ Len(Dispatched(alertLog)) = 2
    /\ sending = <<>>
    /\ ~overlapped
    /\ lastAlertTime = LastDispatch(alertLog)
    /\ Dispatched(alertLog)[2] - Dispatched(alertLog)[1] >= alertCooldown(kind)

\* C13: borrowedAssets is the ceiling of borrowShares * (totalBorrowAssets
\* + 1) / (totalBorrowShares + 1000000): the least integer a with
\* a * denominator >= numerator.  It is 0 for no shares, never below the exact
\* quotient and less than one unit above it.
C13_ShareConversionRoundsUp ==
    (calc.fn = "toAssetsUp" /\ calc.done) =>
        LET a == calc.res.borrowedAssets
            numerator == calc.arg.borrowShares * (calc.arg.totalBorrowAssets + 1)
            denominator == calc.arg.totalBorrowShares + 1000000
        IN  /\ a >= 0
            /\ a * denominator >= numerator
            /\ a > 0 => (a - 1) * denominator < numerator
            /\ a * denominator - numerator < denominator
            /\ calc.arg.borrowShares = 0 => a = 0

\* A conversion that rounds up: the exact quotient is not an integer.
C13_Witness ==
    /\ calc.fn = "toAssetsUp"
    /\ calc.done
    /\ calc.arg.borrowShares > 0
    /\ calc.res.borrowedAssets * (calc.arg.totalBorrowShares + 1000000)
            > calc.arg.borrowShares * (calc.arg.totalBorrowAssets + 1)

RiskDone == calc.fn = "risk" /\ calc.done

\* C14: the three calculators never fail and every zero-denominator input
\* yields a finite sentinel, never an infinity or NaN.
C14_CalculatorsFinite ==
    RiskDone =>
        /\ IsFinite(calc.res.ltv)
        /\ IsFinite(calc.res.liquidationPrice)
        /\ IsFinite(calc.res.bufferPercentage)

\* The quotient num / den of two non-negative integers as JavaScript gives it.
C15_Quotient(q, num, den) ==
    IF den # 0
    THEN IsFinite(q) /\ q.n * den = num * q.d
    ELSE IF num = 0 THEN q = JsNaN ELSE q = JsInfinity

\* C15: calculateLtv returns (borrowedAmount * borrowPrice) /
\* (collateralAmount * collateralPrice) when there is collateral, and 0 when
\* collateralAmount is 0.
C15_LtvFormula ==
    RiskDone =>
        IF calc.arg.collateralAmount = 0
        THEN calc.res.ltv = Num(0)
        ELSE C15_Quotient(calc.res.ltv,
                          calc.arg.borrowedAmount * calc.arg.borrowPrice,
                          calc.arg.collateralAmount * calc.arg.collateralPrice)

\* Borrowed 1000 at price 1 against 1 unit of collateral at price 2000: 0.5.
C15_Witness ==
    /\ RiskDone
    /\ calc.arg.borrowedAmount = 1000
    /\ calc.arg.borrowPrice = 1
    /\ calc.arg.collateralAmount = 1
    /\ calc.arg.collateralPrice = 2000
    /\ calc.res.ltv = [tag |-> "num", n |-> 1, d |-> 2]

C17_BufferFormula ==
    RiskDone =>
        LET ltv == calc.res.ltv
            b == calc.res.bufferPercentage
            L == calc.arg.lltv
        IN  IF L = 0 THEN b = Num(100)
            ELSE IF ltv.tag = "num"
                 THEN /\ IsFinite(b)
                      /\ b.n * (ltv.d * L)
                            = 100 * (ltv.d * L - ltv.n * LTV_ONE) * b.d
            ELSE IF ltv.tag = "inf" THEN b = JsNegInfinity
            ELSE b = JsNaN

\* LTV 0.5 with lltv 0.8: the buffer is 37.5.
C17_Witness ==
    /\ RiskDone
    /\ calc.res.ltv = [tag |-> "num", n |-> 1, d |-> 2]
    /\ calc.arg.lltv = 8000
    /\ calc.res.bufferPercentage = [tag |-> "num", n |-> 75, d |-> 2]

\* The alert condition under a policy: LTV >= lltv * threshold (relative),
\* LTV >= threshold (absolute).
C18_PolicyTrigger(policy, ltv, data) ==
    IF policy = "relative"
    THEN JsGe(ltv, Frac(data.lltv * LTV_ALERT_THRESHOLD, LTV_ONE * LTV_ONE))
    ELSE JsGe(ltv, Frac(LTV_ALERT_THRESHOLD, LTV_ONE))

\* C18: both policies are a configuration choice of the position monitor:
\* whichever policy is configured, a cycle of either position monitor is
\* trigger-worthy exactly when that policy's condition holds.
C18_BothPoliciesConfigurable ==
    RiskDone =>
        \A k \in PositionKinds :
            calc.res.alert[k]
                <=> C18_PolicyTrigger(calc.arg.policy, calc.res.ltv, calc.arg)

\* C19: the Telegram position monitor alerts exactly when the LTV reaches
\* LTV_ALERT_THRESHOLD times the market's LLTV.
C19_TelegramThresholdIsShareOfLltv ==
    RiskDone =>
        (calc.res.alert["telegram"]
            <=> C18_PolicyTrigger("relative", calc.res.ltv, calc.arg))

\* A value that is present; a missing value counts as 0.
C20_Value(x) == IF x = NULL THEN 0 ELSE x

RECURSIVE C20_Sum(_, _)
C20_Sum(f, I) ==
    IF I = {} THEN 0
    ELSE LET i == CHOOSE j \in I : TRUE
         IN  f[i] + C20_Sum(f, I \ {i})

\* totalAllocatedUsd: the sum of supplyAssetsUsd over the allocations that
\* have a value.
C20_TotalAllocatedUsd(allocation) ==
    C20_Sum([i \in DOMAIN allocation |-> C20_Value(allocation[i].supplyAssetsUsd)],
            DOMAIN allocation)

\* The sum over allocations and their market rewards of
\* supplyApr * supplyAssetsUsd (the weighted terms times totalAllocatedUsd).
C20_WeightedTimesTotal(allocation) ==
    C20_Sum([i \in DOMAIN allocation |->
                C20_Value(allocation[i].supplyAssetsUsd)
                    * C20_Sum([j \in DOMAIN allocation[i].rewards |->
                                  C20_Value(allocation[i].rewards[j])],
                              DOMAIN allocation[i].rewards)],
            DOMAIN allocation)

\* C20: calculateTotalRewardsApr returns the sum of supplyApr over the direct
\* rewards plus, when totalAllocatedUsd > 0, the sum over allocations and
\* their market rewards of supplyApr * (supplyAssetsUsd / totalAllocatedUsd);
\* an allocation with a missing value contributes to neither sum.
C20_RewardsAprIsWeightedSum ==
    (calc.fn = "rewards" /\ calc.done) =>
        LET st == calc.arg.state
            direct == C20_Sum([i \in DOMAIN st.rewards |-> C20_Value(st.rewards[i])],
                              DOMAIN st.rewards)
            total == C20_TotalAllocatedUsd(st.allocation)
        IN  IF total > 0
            THEN (calc.res - direct) * total = C20_WeightedTimesTotal(st.allocation)
            ELSE calc.res = direct

\* Direct rewards of 10 and 20 and two allocations: one without value whose
\* market pays 60, one of value 2 whose market pays 60 twice.
C20_WitnessMissingValue ==
    /\ calc.fn = "rewards"
    /\ calc.done
    /\ calc.arg.state.rewards = <<10, 20>>
    /\ calc.arg.state.allocation
         = << [supplyAssetsUsd |-> NULL, rewards |-> <<60>>],
              [supplyAssetsUsd |-> 2, rewards |-> <<60, 60>>] >>
    /\ calc.res = 150

\* Direct rewards of 10 and 20 and allocations of value 1 and 2 whose markets
\* pay 60 and twice 60: 30 + 60 * 1/3 + 120 * 2/3.
C20_Witness ==
    /\ calc.fn = "rewards"
    /\ calc.done
    /\ calc.arg.state.rewards = <<10, 20>>
    /\ calc.arg.state.allocation
         = << [supplyAssetsUsd |-> 1, rewards |-> <<60>>],
              [supplyAssetsUsd |-> 2, rewards |-> <<60, 60>>] >>
    /\ calc.res = 130

\* The rewards without the entries whose supplyApr is missing or no number.
C21_Usable(rewards) == SelectSeq(rewards, LAMBDA r : r \notin MalformedAprs)

C21_WithoutMalformed(vault) ==
    [state |-> [netApy |-> vault.state.netApy,
                rewards |-> C21_Usable(vault.state.rewards),
                allocation |->
                    [i \in DOMAIN vault.state.allocation |->
                        [supplyAssetsUsd |-> vault.state.allocation[i].supplyAssetsUsd,
                         rewards |-> C21_Usable(vault.state.allocation[i].rewards)]]]]

\* C21: a reward entry with a missing or non-numeric supplyApr contributes
\* exactly 0: removing such entries leaves the result of
\* calculateTotalRewardsApr unchanged, and the result is a finite number.
C21_MalformedEntriesContributeNothing ==
    (calc.fn = "malformedRewards" /\ calc.done) =>
        /\ calc.res # NOT_A_NUMBER
        /\ calc.res = calculateTotalRewardsApr(C21_WithoutMalformed(calc.arg))

RewardsDone == calc.fn = "rewards" /\ calc.done

\* The sum of the market reward APRs of allocation i (a missing one is 0).
C22_MarketAprs(allocation, i) ==
    C20_Sum([j \in DOMAIN allocation[i].rewards |->
                C20_Value(allocation[i].rewards[j])],
            DOMAIN allocation[i].rewards)

C22_DirectAprs(st) ==
    C20_Sum([i \in DOMAIN st.rewards |-> C20_Value(st.rewards[i])],
            DOMAIN st.rewards)

\* C22: when the total allocated USD is 0 the result is the sum of the
\* direct rewards; when two allocations have the same USD value the market
\* rewards contribute the simple average of the two allocations' APRs.
C22_WeightingEdgeCases ==
    RewardsDone =>
        LET st == calc.arg.state
            a == st.allocation
        IN  /\ C20_TotalAllocatedUsd(a) = 0 => calc.res = C22_DirectAprs(st)
            /\ (/\ Len(a) = 2
                 /\ a[1].supplyAssetsUsd = a[2].supplyAssetsUsd
                 /\ C20_Value(a[1].supplyAssetsUsd) > 0)
                   => 2 * (calc.res - C22_DirectAprs(st))
                        = C22_MarketAprs(a, 1) + C22_MarketAprs(a, 2)

\* Two allocations of equal value whose markets pay 2% and 4%: 3%.
C22_Witness ==
    /\ RewardsDone
    /\ calc.arg = EqualWeightExample
    /\ calc.res = 3000

\* Allocations that are worth nothing or have no value, with market rewards
\* and direct rewards of 10 and 20: the direct rewards only.
C22_WitnessZeroTotal ==
    /\ RewardsDone
    /\ calc.arg.state.rewards = <<10, 20>>
    /\ calc.arg.state.allocation
         = << [supplyAssetsUsd |-> 0, rewards |-> <<60>>],
              [supplyAssetsUsd |-> NULL, rewards |-> <<60, 60>>] >>
    /\ calc.res = 30

\* The allocations whose weight the loop uses: those with a truthy value.
C23_Weighted(a) == {i \in DOMAIN a : Truthy(a[i].supplyAssetsUsd)}

\* C23: with non-negative APRs and USD values, rewardsApr >= 0, every weight
\* used lies in [0, 1], the weights used sum to at most 1, and the market
\* rewards contribute at most the plain sum of the market reward APRs.
C23_AggregationInvariant ==
    RewardsDone =>
        LET st == calc.arg.state
            a == st.allocation
            w == [i \in DOMAIN a |-> AllocationWeight(a, i)]
        IN  /\ calc.res >= 0
            /\ TotalAllocatedAssets(a) > 0 =>
                 /\ \A i \in C23_Weighted(a) :
                        w[i].d > 0 /\ 0 <= w[i].n /\ w[i].n <= w[i].d
                 /\ \A i, j \in C23_Weighted(a) : w[i].d = w[j].d
                 /\ C20_Sum([i \in DOMAIN a |->
                                IF i \in C23_Weighted(a) THEN w[i].n ELSE 0],
                            DOMAIN a)
                      <= TotalAllocatedAssets(a)
            /\ calc.res - C22_DirectAprs(st)
                 <= C20_Sum([i \in DOMAIN a |-> C22_MarketAprs(a, i)], DOMAIN a)

\* Allocations of value 1 and 2 (weights 1/3 and 2/3) whose markets pay 60
\* and twice 60: the contribution is 100, the plain sum 180.
C23_Witness ==
    /\ RewardsDone
    /\ calc.arg.state.rewards = <<>>
    /\ calc.arg.state.allocation
         = << [supplyAssetsUsd |-> 1, rewards |-> <<60>>],
              [supplyAssetsUsd |-> 2, rewards |-> <<60, 60>>] >>
    /\ AllocationWeight(calc.arg.state.allocation, 2) = [n |-> 2, d |-> 3]
    /\ calc.res = 100

\* C24: for every fetched vault totalApy = baseApy + rewardsApr and
\* totalNetApy = netApy + rewardsApr, baseApy and netApy being 0 when
\* state.apy / state.netApy are absent or null.
C24_TotalsAddRewards ==
    (calc.fn = "totals" /\ calc.done) =>
        LET st == calc.arg.state
            rewardsApr == calc.res.calculatedRewardsApr
        IN  \* a single allocation has weight 1
            /\ rewardsApr = C22_DirectAprs(st)
                    + (IF st.allocation = <<>> THEN 0
                       ELSE C22_MarketAprs(st.allocation, 1))
            /\ calc.res.totalApy = C20_Value(st.apy) + rewardsApr
            /\ calc.res.totalNetApy = C20_Value(st.netApy) + rewardsApr

\* netApy 0.05 with rewardsApr 0.01 gives totalNetApy 0.06; state.apy is
\* absent, so totalApy is the rewards alone.
C24_Witness ==
    /\ calc.fn = "totals"
    /\ calc.done
    /\ calc.arg.state.netApy = 5000
    /\ calc.arg.state.apy = NULL
    /\ calc.res.calculatedRewardsApr = 1000
    /\ calc.res.totalNetApy = 6000
    /\ calc.res.totalApy = 1000

CompareDone == calc.fn = "compare" /\ calc.done

\* |totalNetApy_A - totalNetApy_B| and the timelocks (0 when absent) of the
\* compared pair.
C25_Gap == Abs(calc.arg.a.totalNetApy - calc.arg.b.totalNetApy)
C25_TimelockA == C20_Value(calc.arg.a.timelock)
C25_TimelockB == C20_Value(calc.arg.b.timelock)

\* C25: if the totals differ by less than 0.00005 the report says
\* effectively equal and breaks the tie by timelock only: the vault with the
\* strictly shorter timelock is recommended, equal timelocks are reported as
\* identical.
C25_EqualTieBreak ==
    (CompareDone /\ C25_Gap < EQUAL_TOLERANCE) =>
        LET r == calc.res.report
        IN  /\ r.equal
            /\ C25_TimelockA < C25_TimelockB
                   => r.recommendation = "A" /\ r.basis = "timelock"
            /\ C25_TimelockB < C25_TimelockA
                   => r.recommendation = "B" /\ r.basis = "timelock"
            /\ C25_TimelockA = C25_TimelockB
                   => r.recommendation = "none" /\ r.basis = "identical"

\* A is 0.00004 above B and B has the shorter timelock: B is recommended.
C25_Witness ==
    /\ CompareDone
    /\ calc.arg.a.totalNetApy = 5504
    /\ calc.arg.b.totalNetApy = 5500
    /\ calc.arg.a.timelock = 86400
    /\ calc.arg.b.timelock = 0
    /\ calc.res.report.equal
    /\ calc.res.report.recommendation = "B"

\* C26: whenever the totals differ by less than 0.00005, neither the report
\* nor the monitor's alert message names a vault as the winner on yield.
C26_NoWinnerWhenEqual ==
    (CompareDone /\ C25_Gap < EQUAL_TOLERANCE) =>
        /\ calc.res.report.higher = "none"
        /\ calc.res.report.basis # "returns"
        /\ calc.res.alert.sent => calc.res.alert.better = "none"

\* C27: if the totals differ by 0.00005 or more the vault with the larger
\* total is recommended with magnitude |diff|, and a separate timelock
\* comparison naming the vault with the strictly shorter timelock is
\* reported if and only if the timelocks differ.
C27_HigherYieldRecommended ==
    (CompareDone /\ C25_Gap >= EQUAL_TOLERANCE) =>
        LET r == calc.res.report
            larger == IF calc.arg.a.totalNetApy > calc.arg.b.totalNetApy
                      THEN "A" ELSE "B"
        IN  /\ ~r.equal
            /\ r.higher = larger
            /\ r.recommendation = larger
            /\ r.basis = "returns"
            /\ r.magnitude = C25_Gap
            /\ (r.shorterTimelock # "none") <=> (C25_TimelockA # C25_TimelockB)
            /\ C25_TimelockA < C25_TimelockB => r.shorterTimelock = "A"
            /\ C25_TimelockB < C25_TimelockA => r.shorterTimelock = "B"

\* A at 0.06 and B at 0.055: A is higher by 0.005; B has the shorter
\* timelock, which the timelock comparison reports.
C27_Witness ==
    /\ CompareDone
    /\ calc.arg.a.totalNetApy = 6000
    /\ calc.arg.b.totalNetApy = 5500
    /\ calc.arg.a.timelock = 86400
    /\ calc.arg.b.timelock = NULL
    /\ calc.res.report.higher = "A"
    /\ calc.res.report.magnitude = 500
    /\ calc.res.report.shorterTimelock = "B"

\* C28: comparing (A, B) and (B, A) gives differences of opposite sign and
\* equal magnitude and the same classification as equal; when the totals
\* differ by 0.00005 or more the same vault is named as winner in both
\* orders, by the report and by the monitor, and the same vault is named for
\* its timelock.
C28_ComparisonSymmetry ==
    CompareDone =>
        LET r == calc.res.report
            q == calc.res.reversed
        IN  /\ r.diff = -q.diff
            /\ Abs(r.diff) = Abs(q.diff)
            /\ r.equal = q.equal
            /\ C25_Gap < EQUAL_TOLERANCE => r.equal
            /\ r.magnitude = q.magnitude
            /\ r.higher = q.higher
            /\ r.recommendation = q.recommendation
            /\ r.basis = q.basis
            /\ r.shorterTimelock = q.shorterTimelock
            /\ C25_Gap >= EQUAL_TOLERANCE =>
                  /\ calc.res.alert.sent = calc.res.alertReversed.sent
                  /\ calc.res.alert.better = calc.res.alertReversed.better
                  /\ calc.res.alert.worse = calc.res.alertReversed.worse
                  /\ calc.res.alert.sent => calc.res.alert.better = r.higher

\* B is 0.005 above A: both orders name B, with differences -0.005 and
\* 0.005, and both name A for its shorter timelock.
C28_Witness ==
    /\ CompareDone
    /\ calc.res.report.diff = -500
    /\ calc.res.reversed.diff = 500
    /\ calc.res.report.higher = "B"
    /\ calc.res.reversed.higher = "B"
    /\ calc.res.reversed.shorterTimelock = "A"
    /\ calc.res.alertReversed.sent
    /\ calc.res.alertReversed.better = "B"

\* The dotted path as its field names.
C29_Segments(path) ==
    CASE path = "" -> <<"">>
      [] path \in {"a", "b", "toString"} -> <<path>>
      [] path = "a.b" -> <<"a", "b">>
      [] path = "a.b.b" -> <<"a", "b", "b">>
      [] path = "a.length" -> <<"a", "length">>
      [] path = "a.toString" -> <<"a", "toString">>

\* The own property named key of a value, Absent if it has none.
C29_Own(value, key) ==
    IF value.t = "obj" /\ key \in {"a", "b"} THEN value.own[key]
    ELSE IF value = Prim("'x'") /\ key = "length" THEN Prim("1")
    ELSE Absent

\* The value found by following the segments from obj, Absent if a segment
\* is absent.
RECURSIVE C29_At(_, _)
C29_At(obj, segments) ==
    IF segments = <<>> THEN obj
    ELSE C29_Own(C29_At(obj, SubSeq(segments, 1, Len(segments) - 1)),
                 segments[Len(segments)])

\* C29: safeGet returns the value found by following the dotted path through
\* own properties, and the default whenever a segment is absent or the value
\* reached is null or undefined; it never throws, and a present falsy value
\* is returned as it is.
C29_SafeGetContract ==
    (calc.fn = "safeGet" /\ calc.done) =>
        /\ calc.res # Thrown
        /\ IF calc.arg.path = NotAString
           THEN calc.res = calc.arg.defaultValue
           ELSE LET found == C29_At(calc.arg.obj, C29_Segments(calc.arg.path))
                IN  IF found \in {Absent, Null, Undefined}
                    THEN calc.res = calc.arg.defaultValue
                    ELSE calc.res = found

\* { a: { b: 0 } } with path 'a.b' and default 'N/A': the falsy 0 is returned.
C29_Witness ==
    /\ calc.fn = "safeGet"
    /\ calc.done
    /\ calc.arg.obj = Obj([NoProperties EXCEPT
                              !["a"] = Obj([NoProperties EXCEPT !["b"] = Prim("0")])])
    /\ calc.arg.path = "a.b"
    /\ calc.arg.defaultValue = Prim("'N/A'")
    /\ calc.res = Prim("0")

\* { a: null } with path 'a.b': the default.
C29_WitnessDefault ==
    /\ calc.fn = "safeGet"
    /\ calc.done
    /\ calc.arg.obj = Obj([NoProperties EXCEPT !["a"] = Null])
    /\ calc.arg.path = "a.b"
    /\ calc.arg.defaultValue = Prim("'N/A'")
    /\ calc.res = Prim("'N/A'")

\* A cycle of a position monitor returns from getPositionData with every
\* external read of that call having succeeded.
C30_AllReadsSucceed ==
    \E rpc \in RpcOutcomes : rpc.fail = "none" /\ PositionFetchReturnsWith(rpc)

\* C30: a failed cycle does not poison later ones: whenever every external
\* read of a cycle of the position monitor succeeds, getPositionData returns
\* a position and the cycle is evaluated.
C30_Step == C30_AllReadsSucceed => lastCycle'.ok

C30_FailedCycleDoesNotPoison == [][C30_Step]_vars


\* C31 (sends in flight): at no time are two notification sends of one
\* monitor awaiting their response.
C31_OneSendInFlight == Len(sending) <= 1

\* C31 (spacing): no two sends are started less than alertCooldown apart.
C31_SendsApart ==
    \A i, j \in 1..Len(Dispatched(alertLog)) :
        i < j => Dispatched(alertLog)[j] - Dispatched(alertLog)[i]
                    >= alertCooldown(kind)

\* C31: the cooldown holds under pending delivery.  While a send is awaiting
\* its response, a trigger-worthy cycle less than alertCooldown after the
\* first attempt starts no second send: never two sends in flight, never two
\* sends started less than alertCooldown apart.
C31_CooldownUnderPendingDelivery == C31_OneSendInFlight /\ C31_SendsApart

\* C32: lastAlertTime never decreases.  Under any interleaving of cycles and
\* of sends completing in any order, every write to lastAlertTime stores a
\* value greater than or equal to the value it replaces.
C32_LastAlertTimeNeverDecreases == [][lastAlertTime' >= lastAlertTime]_vars

\* C33: dispatch is part of the cycle.  When no call of monitor is active,
\* no notification send is pending (and with it no write of lastAlertTime,
\* which follows the return of the send): every dispatch has returned before
\* its cycle completed.
C33_DispatchIsPartOfTheCycle == ActiveCycles = 0 => sending = <<>>

\* A notification is dispatched: a send starts, or the console monitor prints.
C34_Dispatch ==
    \/ Len(sending') > Len(sending)
    \/ (AlertCalled /\ NewEntry.sent)

\* C34 (cause): a dispatch happens only in a step that evaluates a cycle
\* whose fetch returned a complete snapshot and whose trigger condition held.
C34_OnlyWithCause ==
    C34_Dispatch =>
        /\ CycleEvaluated
        /\ lastCycle'.ok
        /\ lastCycle'.trigger
        /\ NewEntry.time = now
        /\ NewEntry.cause # "none"

\* C34 (no trigger): a cycle whose trigger is false dispatches nothing and
\* leaves lastAlertTime as it was.
C34_NoTriggerNoEffect ==
    (CycleEvaluated /\ ~lastCycle'.trigger) =>
        UNCHANGED <<lastAlertTime, sending, alertLog>>

\* C34: no alert without cause.  Apart from the vault monitor's startup
\* message, a notification is dispatched only inside a cycle with a complete
\* snapshot whose trigger condition held in that cycle; a cycle whose trigger
\* is false never dispatches and never changes lastAlertTime.
C34_NoAlertWithoutCause == [][C34_OnlyWithCause /\ C34_NoTriggerNoEffect]_vars

\* A notification has been dispatched, and the last cycle had its snapshot
\* and no trigger.
C34_Witness ==
    /\ Dispatched(alertLog) # <<>>
    /\ lastCycle.done
    /\ lastCycle.ok
    /\ ~lastCycle.trigger

\* C35 (start): before the first cycle, and through the vault monitor's
\* startup message, lastAlertTime is 0 and the baselines are null; and
\* lastAlertTime stays 0 until logAlert is first called.
C35_StartsAtZero ==
    /\ mainPc \in {"new", "startSend"} =>
          (lastAlertTime = 0 /\ lastVault1NetApy = NULL /\ lastVault2NetApy = NULL)
    /\ alertLog = <<>> => lastAlertTime = 0

\* C35 (first alert): the first call of logAlert dispatches.
C35_FirstAttemptDispatches == alertLog # <<>> => alertLog[1].sent

\* C35: the initial state allows dispatch.  A monitor starts with
\* lastAlertTime = 0 and null baselines, the vault monitor's startup message
\* does not write lastAlertTime, and the first trigger-worthy cycle after
\* process start dispatches a notification: the cooldown never suppresses it.
C35_InitialStateAllowsDispatch == C35_StartsAtZero /\ C35_FirstAttemptDispatches

\* The vault monitor has sent its startup message, run a cycle without
\* trigger, and then dispatched for its first trigger-worthy cycle.
C35_Witness ==
    /\ kind = "vault"
    /\ alertLog # <<>>
    /\ alertLog[1].time > StartTime
    /\ alertLog[1].sent

ConsistencyDone == calc.fn = "consistency" /\ calc.done

\* C36 (at the liquidation price): calculateLtv with collateralPrice replaced
\* by calculateLiquidationPrice(data) gives exactly lltv.
C36_LtvAtLiquidationPriceIsLltv ==
    ConsistencyDone => calc.res.ltvAtLiquidationPrice = calc.res.lltv

\* C36 (comparison): LTV >= lltv holds if and only if
\* collateralPrice <= liquidationPrice.
C36_AtOrAboveLltvIffAtOrBelowPrice ==
    ConsistencyDone =>
        (DoubleGe(calc.res.ltv, calc.res.lltv)
            <=> DoubleGe(calc.res.liquidationPrice, calc.res.collateralPrice))

\* C36: the liquidation price is consistent with the LTV.  For every position
\* with positive borrowedAmount, borrowPrice, collateralAmount and lltv, the
\* LTV recomputed at the liquidation price is exactly lltv, and LTV >= lltv
\* holds if and only if collateralPrice <= liquidationPrice.
C36_LiquidationPriceConsistent ==
    C36_LtvAtLiquidationPriceIsLltv /\ C36_AtOrAboveLltvIffAtOrBelowPrice

OrderDone == calc.fn = "order" /\ calc.done

\* C37: the vault monitor's result does not depend on the order in which
\* the data source returns the vaults.  For the same two snapshots in either
\* order the cycle computes the same apyDiff, the same alert decision and the
\* same recommended vault, and records each vault's value in the same
\* baseline field; vault 1 is the vault at the configured address VAULT_1,
\* whatever the case of its spelling.
C37_OrderIndependence ==
    OrderDone =>
        /\ calc.res.forward = calc.res.reversed
        /\ toLowerCase(calc.res.forward.recommended)
              = (IF calc.res.forward.apyDiff > 0
                 THEN toLowerCase(VAULT_1)
                 ELSE toLowerCase(VAULT_2))
        /\ calc.res.forward.lastVault1NetApy
              = WithTotals(calc.arg.items[1]).totalNetApy
        /\ calc.res.forward.lastVault2NetApy
              = WithTotals(calc.arg.items[2]).totalNetApy

\* Two vaults with different yields, returned in both orders: an alert that
\* recommends vault 2, which the response listed second and then first.
C37_Witness ==
    /\ OrderDone
    /\ calc.res.forward.trigger
    /\ calc.res.forward.apyDiff < 0
    /\ calc.res.reversed.recommended = "0xB2"
====
